---- MODULE Spec2Model ----
(***************************************************************************)
(* Model of the AIMapperProcessing record-linkage pipeline:                *)
(*   etl_processing/etl/generic.py        GenericETL (batch orchestrator,  *)
(*                                        deterministic matcher, synonym   *)
(*                                        learner, splitting, validation)  *)
(*   etl_processing/services/ai_matcher.py AIMatcherService (semantic      *)
(*                                        matcher)                         *)
(*   etl_processing/services/database.py  DatabaseManager                  *)
(*   etl_processing/services/monitoring.py MonitoringService               *)
(*                                                                         *)
(* Text is a sequence of one-character strings.  Similarities, thresholds  *)
(* and weights are integers counting tenths (7 stands for 0.7).  An        *)
(* optional value is <<>> (Python None) or <<x>>.                          *)
(***************************************************************************)
EXTENDS Integers, Sequences, FiniteSets, TLC

\* ------------------------------------------------------------------------
\* Bounds of the model
\* ------------------------------------------------------------------------
\* database and session errors injected over a whole behaviour
MaxFaults == 1
\* number of process starts (GenericETL constructed, then run) that are followed
MaxRuns == 2
\* length of the raw field values that value splitting is tried on
MaxRawLen == 4
\* number of session scopes that are entered one after another
MaxScopes == 2
\* largest max_retries that update_record is called with
MaxRetries == 3
\* largest max_attempts that a function is wrapped with by with_retry
MaxAttempts == 3
\* rows the dictionary table holds before a lookup
MaxSynonyms == 2
\* calls made on one MonitoringService, one ErrorHandler
MaxCalls == 5
\* adjust_size calls on one BatchOptimizer
MaxAdjustments == 2

\* ------------------------------------------------------------------------
\* Program constants
\* ------------------------------------------------------------------------
DefaultBatchSize == 1000
DefaultMaxIterations == 1
DefaultThreshold == 7
DefaultWeight == 10

\* ------------------------------------------------------------------------
\* Optional values and Python truthiness
\* ------------------------------------------------------------------------
None == <<>>
Some(x) == <<x>>
IsNone(o) == o = <<>>
Get(o) == o[1]

\* `if x:` for an optional integer: None and 0 are both falsy
TruthyInt(o) == o # None /\ Get(o) # 0

\* `if s:` for an optional text: None and "" are both falsy
TruthyText(o) == o # None /\ Get(o) # <<>>

\* ------------------------------------------------------------------------
\* Text
\* ------------------------------------------------------------------------
LowerChar(c) == IF c = "A" THEN "a" ELSE IF c = "Z" THEN "z" ELSE c

\* str.lower()
Lower(s) == [i \in 1..Len(s) |-> LowerChar(s[i])]

RECURSIVE LStrip(_)
LStrip(s) == IF s = <<>> THEN s
             ELSE IF Head(s) = " " THEN LStrip(Tail(s)) ELSE s

RECURSIVE RStrip(_)
RStrip(s) == IF s = <<>> THEN s
             ELSE IF s[Len(s)] = " " THEN RStrip(SubSeq(s, 1, Len(s) - 1)) ELSE s

\* str.strip(), and SQL TRIM(): the only white space of the alphabet is " "
Strip(s) == RStrip(LStrip(s))

\* TextProcessor.normalize_text
normalize_text(s) == Strip(Lower(s))

IsSeparator(c) == c \in {"/", ","}

\* re.split('[/,]', s): the segments between separators, empty ones included
RECURSIVE ReSplit(_, _)
ReSplit(s, cur) ==
    IF s = <<>> THEN <<cur>>
    ELSE IF IsSeparator(Head(s)) THEN <<cur>> \o ReSplit(Tail(s), <<>>)
    ELSE ReSplit(Tail(s), Append(cur, Head(s)))

\* segments kept as they are cut
MapKeep(segs) == segs

\* val.strip() for val in ...
MapStrip(segs) == [i \in 1..Len(segs) |-> Strip(segs[i])]

NonEmpty(s) == s # <<>>

IsDigit(c) == c \in {"0", "1"}

\* re.match('^\d+$', s)
AllDigits(s) == s # <<>> /\ \A i \in 1..Len(s) : IsDigit(s[i])

\* validation.skip_if_matches: absent, '^\d+$', or a pattern without anchors, '\d+'
PatternNone == "none"
PatternAllDigits == "^[0-9]+$"
PatternDigitPrefix == "[0-9]+"

\* re.search: the pattern matches somewhere in s
re_search(pattern, s) ==
    IF pattern = PatternAllDigits THEN AllDigits(s)
    ELSE \E i \in 1..Len(s) : IsDigit(s[i])

\* re.match: the pattern matches at the start of s
re_match(pattern, s) ==
    IF pattern = PatternAllDigits THEN AllDigits(s)
    ELSE s # <<>> /\ IsDigit(s[1])


\* ------------------------------------------------------------------------
\* Configuration (the YAML file read by GenericETL._init_config)
\* ------------------------------------------------------------------------
TargetTable == "target"
OtherTable == "other"

\* etl_types.test: single-valued, dictionary, one weighted context field, skip pattern
EtlTest ==
    [name |-> "test", table_name |-> TargetTable, multiple_values |-> FALSE,
     has_dictionary |-> TRUE, skip_if_matches |-> PatternAllDigits,
     context_weights |-> <<Some(5)>>]

\* etl_types.test_multi: multi-valued through a junction table, separator [/,]
EtlTestMulti ==
    [name |-> "test_multi", table_name |-> TargetTable, multiple_values |-> TRUE,
     has_dictionary |-> TRUE, skip_if_matches |-> PatternNone, context_weights |-> <<>>]

\* an ETL type whose configuration has no dictionary_table key
EtlNoDictionary ==
    [name |-> "test_nodict", table_name |-> TargetTable, multiple_values |-> FALSE,
     has_dictionary |-> FALSE, skip_if_matches |-> PatternNone, context_weights |-> <<>>]

\* an ETL type whose skip pattern has no anchors of its own
EtlDigitPrefix ==
    [name |-> "test_prefix", table_name |-> TargetTable, multiple_values |-> FALSE,
     has_dictionary |-> TRUE, skip_if_matches |-> PatternDigitPrefix,
     context_weights |-> <<>>]

EtlTypes == {EtlTest, EtlTestMulti, EtlNoDictionary}

\* config['settings']: None (an empty `settings:` key) or a mapping whose keys are optional
SettingsChoices ==
    { None,
      Some([batch_size |-> None, max_iterations |-> None]),
      Some([batch_size |-> Some(1), max_iterations |-> Some(2)]),
      Some([batch_size |-> None, max_iterations |-> Some(2)]) }

\* settings.get('batch_size', 1000)
batch_size_of(settings) ==
    IF IsNone(Get(settings).batch_size) THEN DefaultBatchSize ELSE Get(Get(settings).batch_size)

\* settings.get('max_iterations', 1)
max_iterations_of(settings) ==
    IF IsNone(Get(settings).max_iterations) THEN DefaultMaxIterations
    ELSE Get(Get(settings).max_iterations)

\* ------------------------------------------------------------------------
\* The canonical target table, in the order the query of _init_ai_matcher returns it
\* ------------------------------------------------------------------------
TargetRows == << [id |-> 0, name |-> <<"z">>], [id |-> 3, name |-> <<"a">>] >>

\* existing_options = [name for _, name in items]
existing_options(items) == [i \in 1..Len(items) |-> items[i].name]

\* a map that hands back the position itself (counted from 0, as enumerate does)
id_map_positions(items) == [i \in 1..Len(items) |-> i - 1]

\* id_map = {idx: id for idx, (id, _) in enumerate(items)}   (positions count from 1 here)
id_map(items) == [i \in 1..Len(items) |-> items[i].id]

\* ------------------------------------------------------------------------
\* GenericETL: splitting, validation, context
\* ------------------------------------------------------------------------
\* GenericETL._split_values
_split_values(etl, raw_value) ==
    IF ~etl.multiple_values THEN <<raw_value>>
    ELSE SelectSeq(MapStrip(ReSplit(raw_value, <<>>)), NonEmpty)

\* GenericETL.is_valid_value
is_valid_value(etl, value) ==
    IF value = <<>> THEN FALSE
    ELSE IF etl.skip_if_matches # PatternNone /\ re_match(etl.skip_if_matches, Strip(value))
    THEN FALSE
    ELSE TRUE

\* GenericETL._get_context: one {value, weight} entry per configured context field
\* whose value on the record is truthy
RECURSIVE _get_context(_, _)
_get_context(weights, fields) ==
    IF weights = <<>> \/ fields = <<>> THEN <<>>
    ELSE (IF Head(fields) # <<>>
          THEN <<[isdict |-> TRUE, value |-> Head(fields), weight |-> Head(weights)]>>
          ELSE <<>>) \o _get_context(Tail(weights), Tail(fields))

\* ------------------------------------------------------------------------
\* GenericETL: deterministic matcher and synonym learner
\* ------------------------------------------------------------------------
Min(S) == CHOOSE x \in S : \A y \in S : x <= y
Max(S) == CHOOSE x \in S : \A y \in S : x >= y

\* a lookup that asks the dictionary table first and the target table second
_find_direct_match_synonym_first(etl, synonyms, value, query_raises) ==
    LET t == {i \in 1..Len(TargetRows) : TargetRows[i].name = value}
        s == {i \in 1..Len(synonyms) : /\ synonyms[i].table_name = etl.table_name
                                       /\ synonyms[i].name = value}
    IN IF query_raises THEN None
       ELSE IF etl.has_dictionary /\ s # {} THEN Some(synonyms[Min(s)].table_name_id)
       ELSE IF t # {} THEN Some(TargetRows[Min(t)].id)
       ELSE None

\* GenericETL._find_direct_match; query_raises: the query raised, which the method swallows
_find_direct_match(etl, synonyms, value, query_raises) ==
    LET t == {i \in 1..Len(TargetRows) : TargetRows[i].name = value}
        s == {i \in 1..Len(synonyms) : /\ synonyms[i].table_name = etl.table_name
                                       /\ synonyms[i].name = value}
    IN IF query_raises THEN None
       ELSE IF t # {} THEN Some(TargetRows[Min(t)].id)
       ELSE IF etl.has_dictionary /\ s # {} THEN Some(synonyms[Min(s)].table_name_id)
       ELSE None

\* an existence check that compares the stored name with the raw value
synonym_exists_untrimmed(synonyms, table, value) ==
    \E i \in 1..Len(synonyms) :
        synonyms[i].table_name = table /\ synonyms[i].name = value

\* the existence check of _add_synonym and DatabaseManager.add_synonym:
\* table_name == target_table AND TRIM(name) COLLATE utf8mb4_general_ci == value.strip()
synonym_exists(synonyms, table, value) ==
    \E i \in 1..Len(synonyms) :
        /\ synonyms[i].table_name = table
        /\ Lower(Strip(synonyms[i].name)) = Lower(Strip(value))

new_synonym(table, target_id, value) ==
    [table_name |-> table, table_name_id |-> target_id, name |-> Strip(value)]

\* a learner that logs a failed insert and returns, as DatabaseManager.add_synonym does
_add_synonym_swallowing(etl, synonyms, value, target_id, insert_raises) ==
    IF ~etl.has_dictionary \/ insert_raises \/ synonym_exists(synonyms, etl.table_name, value)
    THEN [synonyms |-> synonyms, raised |-> FALSE]
    ELSE [synonyms |-> Append(synonyms, new_synonym(etl.table_name, target_id, value)),
          raised |-> FALSE]

\* GenericETL._add_synonym; insert_raises: add/commit raised (rolled back and re-raised)
_add_synonym(etl, synonyms, value, target_id, insert_raises) ==
    IF ~etl.has_dictionary THEN [synonyms |-> synonyms, raised |-> FALSE]
    ELSE IF synonym_exists(synonyms, etl.table_name, value)
         THEN [synonyms |-> synonyms, raised |-> FALSE]
    ELSE IF insert_raises THEN [synonyms |-> synonyms, raised |-> TRUE]
    ELSE [synonyms |-> Append(synonyms, new_synonym(etl.table_name, target_id, value)),
          raised |-> FALSE]

\* DatabaseManager.add_synonym: True if added, False if it exists or on an error
add_synonym(synonyms, value, target_table, target_id, raises) ==
    IF raises THEN [synonyms |-> synonyms, result |-> FALSE]
    ELSE IF ~synonym_exists(synonyms, target_table, value)
         THEN [synonyms |-> Append(synonyms, new_synonym(target_table, target_id, value)),
               result |-> TRUE]
    ELSE [synonyms |-> synonyms, result |-> FALSE]

\* ------------------------------------------------------------------------
\* AIMatcherService
\* ------------------------------------------------------------------------
\* What the embedding backend does when the matcher is constructed:
\*   load:   SentenceTransformer(model_name) returns (TRUE) or raises (FALSE)
\*   encode: model.encode(options) raises ("raise") or returns an array of `ndim` dimensions
BackendOutcomes ==
    { [load |-> FALSE, encode |-> "raise", ndim |-> 0],
      [load |-> TRUE, encode |-> "raise", ndim |-> 0],
      [load |-> TRUE, encode |-> "array", ndim |-> 1],
      [load |-> TRUE, encode |-> "array", ndim |-> 2] }

\* embeddings taken as they come, whatever their rank
_compute_embeddings_unchecked(backend, options) ==
    IF backend.encode = "raise" THEN None ELSE Some([rows |-> Len(options)])

\* AIMatcherService._compute_safe_embeddings: the embeddings, or None when it raises
_compute_safe_embeddings(backend, options) ==
    IF backend.encode = "raise" THEN None
    ELSE IF backend.ndim # 2 THEN None
    ELSE Some([rows |-> Len(options)])

\* AIMatcherService.__init__
AIMatcherInit(backend, options) ==
    IF ~backend.load
    THEN [model |-> FALSE, option_embeddings |-> None, existing_options |-> <<>>]
    ELSE [model |-> TRUE,
          option_embeddings |-> _compute_safe_embeddings(backend, options),
          existing_options |-> options]

Disabled(m) == ~m.model \/ IsNone(m.option_embeddings)

\* similarity_threshold or config.get('ai', {}).get('similarity_threshold', 0.7)
effective_threshold(supplied, configured) ==
    IF TruthyInt(supplied) THEN Get(supplied)
    ELSE IF configured # None THEN Get(configured)
    ELSE DefaultThreshold

RECURSIVE SumWeights(_)
\* sum(content.get('weight', 1.0) for content in context.values() if isinstance(content, dict))
SumWeights(context) ==
    IF context = <<>> THEN 0
    ELSE (IF Head(context).isdict
          THEN (IF IsNone(Head(context).weight) THEN DefaultWeight
                ELSE Get(Head(context).weight))
          ELSE 0) + SumWeights(Tail(context))

\* total_weight = sum(...) or 1.0
total_weight(context) ==
    IF SumWeights(context) = 0 THEN DefaultWeight ELSE SumWeights(context)

\* every entry weighted alike
entry_weight_uniform(c) == DefaultWeight

\* content.get('weight', 1.0)
entry_weight(c) == IF IsNone(c.weight) THEN DefaultWeight ELSE Get(c.weight)

\* the entries _apply_context_weights adds: {value, weight} records whose value is truthy
Applied(context) == {i \in 1..Len(context) : context[i].isdict /\ context[i].value # <<>>}

RECURSIVE SumOver(_, _, _)
SumOver(S, f, j) ==
    IF S = {} THEN 0
    ELSE LET i == Min(S) IN f[i][j] + SumOver(S \ {i}, f, j)

\* AIMatcherService._apply_context_weights.  The boosted similarity of option j is
\*   similarities[j] + SUM_i context_similarities[i][j] * weight_i / total_weight;
\* it is kept as the numerator over the common denominator total_weight.
_apply_context_weights(similarities, context, context_similarities) ==
    LET tw == total_weight(context)
        contrib == [i \in 1..Len(context) |->
                      [j \in 1..Len(similarities) |->
                          context_similarities[i][j] * entry_weight(context[i])]]
    IN [den |-> tw,
        num |-> [j \in 1..Len(similarities) |->
                    similarities[j] * tw + SumOver(Applied(context), contrib, j)]]

\* a/den < b/den
Less(a, b, den) == IF den > 0 THEN a < b ELSE b < a

\* np.argsort(similarities)[-top_k:][::-1][0]: the sort is ascending and, for the short
\* arrays of this model (insertion-sorted), keeps equal elements in index order, so the
\* last position holds the highest index of the maximum
best_index_of(w) ==
    Max({i \in 1..Len(w.num) : \A j \in 1..Len(w.num) : ~Less(w.num[i], w.num[j], w.den)})

\* a selection of always three candidates
top_k_fixed(similarities) == 3

\* top_k = min(3, len(similarities))
top_k(similarities) == Min({3, Len(similarities)})

\* best_similarity > similarity_threshold
accepts_strictly(num, den, threshold) == Less(threshold * den, num, den)

\* best_similarity >= similarity_threshold
accepts(num, den, threshold) == ~Less(num, threshold * den, den)

\* AIMatcherService.find_best_match.  similarities and context_similarities are what
\* the embedding backend answers for the enhanced value and for each context value.
find_best_match(m, configured, value, context, supplied, similarities, context_similarities) ==
    IF Disabled(m) THEN None
    ELSE IF Len(similarities) = 0 THEN None
    ELSE LET threshold == effective_threshold(supplied, configured)
             w == _apply_context_weights(similarities, context, context_similarities)
             best_index == best_index_of(w)
         IN IF accepts(w.num[best_index], w.den, threshold)
            THEN Some([id |-> best_index,
                       confidence |-> [num |-> w.num[best_index], den |-> w.den],
                       matched_value |-> m.existing_options[best_index]])
            ELSE None

\* ------------------------------------------------------------------------
\* State
\* ------------------------------------------------------------------------
VARIABLES
    config,             \* the configuration file: [etl, settings, ai_threshold]
    source,             \* source table: row r has id r, a value field and a context field
    mapping,            \* mapping-id column of the source rows (None = NULL)
    junction,           \* junction table: rows [source_id, target_id]
    synonyms,           \* dictionary table: rows [table_name, table_name_id, name]
    matcher,            \* the AIMatcherService of the running process
    backend,            \* what the embedding backend did when that matcher was built
    runs,               \* process starts so far
    pc,                 \* "new", "ready", "fetching", "processing", "returned"
    iteration,          \* run(): iteration
    batch,              \* run(): records, as source row ids
    pos,                \* run(): position i of the for loop
    processed_in_batch, \* run(): processed_in_batch
    processed_total,    \* run(): processed_total
    current_run,        \* MonitoringService.current_run (None, or the ETLMetrics counters)
    start_calls,        \* calls of monitoring.start_run by the current run()
    end_calls,          \* calls of monitoring.end_run by the current run()
    fetches,            \* batch fetches attempted by the current run()
    backlog,            \* unmapped records when the current run() started
    batches,            \* [size, processed] of each batch the current run() completed
    outcome,            \* how the current run() ended: "", "Done", "IterationCapReached", "Failed"
    raised,             \* run() let an exception escape
    last,               \* what happened to the record of the batch processed last
    failed_before,      \* a record of the current batch before `last` raised
    faults,             \* database and session errors injected so far
    peer,               \* a second process that is inside _add_synonym
    query               \* one call of find_best_match, for the matcher on its own

dbvars == <<mapping, junction, synonyms>>
runvars == <<matcher, backend, backlog, batches, runs, pc, iteration, batch, pos, processed_in_batch, processed_total,
             current_run, start_calls, end_calls, fetches, outcome, raised, last,
             failed_before>>
vars == <<config, source, dbvars, runvars, faults, peer, query>>

\* ------------------------------------------------------------------------
\* Input sets
\* ------------------------------------------------------------------------
\* raw values and target ids that synonym learning is tried on
LearnValues == { <<"A", " ">>, <<"A">>, <<" ", "a">>, <<"z">>, <<"1">> }
LearnIds == {0, 3}

\* a row of the source table: value field (None = NULL) and context field
Row(value, context_field) == [value |-> value, context_field |-> context_field]

\* the source tables the model starts from; row r has id r
TableWithContext ==
    << Row(Some(<<"A", " ">>), <<"c">>), Row(Some(<<"a">>), <<>>),
       Row(Some(<<"A", " ">>), <<"c">>) >>

TableWithSkipped ==
    << Row(Some(<<"z">>), <<>>), Row(Some(<<"1">>), <<>>), Row(None, <<>>) >>

TableWithSeparators ==
    << Row(Some(<<"a", "/", " ", "A">>), <<>>), Row(Some(<<>>), <<>>),
       Row(Some(<<"a">>), <<>>) >>

SourceTables == {TableWithContext, TableWithSkipped, TableWithSeparators}

\* cosine similarities the backend may answer (tenths)
SimValues == {3, 7}
ContextSimValues == {0, 4}
SimVectors(n) == [1..n -> SimValues]
ContextSimVectors(n) == [1..n -> ContextSimValues]

\* ------------------------------------------------------------------------
\* MonitoringService
\* ------------------------------------------------------------------------
\* ETLMetrics(start_time=...)
NewMetrics == [records_processed |-> 0, records_failed |-> 0,
               direct_matches |-> 0, ai_matches |-> 0]

\* MonitoringService.record_success
record_success(cr) ==
    IF IsNone(cr) THEN cr
    ELSE Some([Get(cr) EXCEPT !.records_processed = @ + 1])

\* MonitoringService.record_error
record_error(cr) ==
    IF IsNone(cr) THEN cr
    ELSE Some([Get(cr) EXCEPT !.records_failed = @ + 1])

\* MonitoringService.record_match
record_match(cr, match_type) ==
    IF IsNone(cr) THEN cr
    ELSE IF match_type = "direct" THEN Some([Get(cr) EXCEPT !.direct_matches = @ + 1])
    ELSE IF match_type = "ai" THEN Some([Get(cr) EXCEPT !.ai_matches = @ + 1])
    ELSE cr

\* ------------------------------------------------------------------------
\* GenericETL._process_record
\* ------------------------------------------------------------------------
\* State of the loop over the candidates of one record: the dictionary table as the
\* record's session sees it, matched_ids, the metrics, what happened to each candidate,
\* and whether an exception left the loop
NewLoop(syn, cr, injected) ==
    [synonyms |-> syn, matched_ids |-> <<>>, current_run |-> cr, trace |-> <<>>,
     raised |-> FALSE, faults |-> injected]

Traced(value, kind, id, direct, ai_called) ==
    [value |-> value, kind |-> kind, id |-> id, direct |-> direct, ai_called |-> ai_called]

\* a loop that counts a processing error for a candidate no matcher resolves
unmatched_as_error(acc, value, d, q) ==
    [acc EXCEPT !.faults = @ + q,
                !.current_run = record_error(@),
                !.trace = Append(@, Traced(value, "miss", None, d, TRUE))]

\* `if match_result:` is false after find_best_match: nothing is appended, counted or
\* learned, and the loop goes on with the next candidate
unmatched(acc, value, d, q) ==
    [acc EXCEPT !.faults = @ + q,
                !.trace = Append(@, Traced(value, "miss", None, d, TRUE))]

\* the body of `for value in self._split_values(raw_value)` for one candidate;
\* sv, cv: the backend's similarities; query_raises, insert_raises: database errors
candidate_step(etl, m, ai_threshold, context, value, acc, sv, cv, query_raises, insert_raises) ==
    IF acc.raised THEN acc
    ELSE IF ~is_valid_value(etl, value)
    THEN [acc EXCEPT !.trace = Append(@, Traced(value, "invalid", None, None, FALSE))]
    ELSE LET d == _find_direct_match(etl, acc.synonyms, value, query_raises)
             q == IF query_raises THEN 1 ELSE 0
         IN
         IF TruthyInt(d)
         THEN [acc EXCEPT !.matched_ids = Append(@, Get(d)),
                          !.current_run = record_match(@, "direct"),
                          !.faults = @ + q,
                          !.trace = Append(@, Traced(value, "direct", d, d, FALSE))]
         ELSE LET r == find_best_match(m, ai_threshold, value, context, None, sv, cv) IN
              IF IsNone(r)
              THEN unmatched(acc, value, d, q)
              ELSE LET actual_id == id_map(TargetRows)[Get(r).id]
                       a == _add_synonym(etl, acc.synonyms, value, actual_id, insert_raises)
                   IN [acc EXCEPT !.matched_ids = Append(@, actual_id),
                                  !.current_run = record_match(@, "ai"),
                                  !.synonyms = a.synonyms,
                                  !.raised = a.raised,
                                  !.faults = @ + q + (IF a.raised THEN 1 ELSE 0),
                                  !.trace = Append(@, Traced(value, "ai", Some(actual_id), d, TRUE))]

\* what the backend and the database may do while one candidate is handled
StepInputs(context, injected) ==
    { i \in SimVectors(Len(TargetRows))
             \X [1..Len(context) -> ContextSimVectors(Len(TargetRows))]
             \X BOOLEAN \X BOOLEAN :
        injected + (IF i[3] THEN 1 ELSE 0) + (IF i[4] THEN 1 ELSE 0) <= MaxFaults }

RECURSIVE loop_outcomes(_, _, _, _, _, _)
\* every way the loop over the candidates can end
loop_outcomes(etl, m, ai_threshold, context, candidates, acc) ==
    IF candidates = <<>> THEN {acc}
    ELSE LET next == { candidate_step(etl, m, ai_threshold, context, Head(candidates), acc,
                                      i[1], i[2], i[3], i[4]) :
                       i \in StepInputs(context, acc.faults) }
         IN UNION { loop_outcomes(etl, m, ai_threshold, context, Tail(candidates), a) :
                    a \in next }

\* a loop that adds a row for the first resolved id only
junction_rows_first(rec_id, ids) == <<[source_id |-> rec_id, target_id |-> ids[1]]>>

\* for target_id in matched_ids: session.add(junction_model(source, target))
junction_rows(rec_id, ids) == [k \in 1..Len(ids) |-> [source_id |-> rec_id, target_id |-> ids[k]]]

\* lines 181-207 of _process_record, after the loop: apply the resolved ids, commit,
\* or take the exception path (record_error, rollback, return False)
apply_matches(etl, rec_id, map, junc, acc, commit_raises) ==
    LET base == [synonyms |-> acc.synonyms, mapping |-> map, junction |-> junc,
                 current_run |-> acc.current_run, ret |-> FALSE, errored |-> FALSE,
                 resolved |-> acc.matched_ids # <<>>, trace |-> acc.trace,
                 faults |-> acc.faults + (IF acc.matched_ids # <<>> /\ ~acc.raised /\ commit_raises
                                          THEN 1 ELSE 0)]
    IN IF acc.raised \/ (acc.matched_ids # <<>> /\ commit_raises)
       THEN [base EXCEPT !.current_run = record_error(@), !.errored = TRUE]
       ELSE IF acc.matched_ids # <<>>
       THEN [base EXCEPT
                !.mapping = IF etl.multiple_values THEN @
                            ELSE [@ EXCEPT ![rec_id] = Some(acc.matched_ids[1])],
                !.junction = IF etl.multiple_values
                             THEN @ \o junction_rows(rec_id, acc.matched_ids) ELSE @,
                !.current_run = record_success(@),
                !.ret = TRUE]
       ELSE base

\* GenericETL._process_record: every result it can have for source row rec_id
_process_record(etl, m, ai_threshold, row, rec_id, syn, map, junc, cr, injected, commit_raises) ==
    IF ~TruthyText(row.value)
    THEN { [synonyms |-> syn, mapping |-> map, junction |-> junc, current_run |-> cr,
            ret |-> FALSE, errored |-> FALSE, resolved |-> FALSE, trace |-> <<>>,
            faults |-> injected] }
    ELSE { apply_matches(etl, rec_id, map, junc, acc, commit_raises) :
           acc \in loop_outcomes(etl, m, ai_threshold,
                                 _get_context(etl.context_weights, <<row.context_field>>),
                                 _split_values(etl, Get(row.value)),
                                 NewLoop(syn, cr, injected)) }

\* ------------------------------------------------------------------------
\* GenericETL.get_unmapped_records
\* ------------------------------------------------------------------------
\* a query without the NOT EXISTS subquery on the junction table
has_junction_never(junc, rec_id) == FALSE

\* the EXISTS subquery of get_unmapped_records on the junction table
has_junction(junc, rec_id) == \E i \in 1..Len(junc) : junc[i].source_id = rec_id

\* a query that selects on the value field alone
is_unmapped_by_value(etl, src, map, junc, r) == src[r].value # None

\* the WHERE clause of get_unmapped_records
is_unmapped(etl, src, map, junc, r) ==
    /\ src[r].value # None
    /\ IF etl.multiple_values THEN ~has_junction(junc, r) ELSE IsNone(map[r])

RECURSIVE unmapped_from(_, _, _, _, _)
unmapped_from(etl, src, map, junc, r) ==
    IF r > Len(src) THEN <<>>
    ELSE (IF is_unmapped(etl, src, map, junc, r) THEN <<r>> ELSE <<>>)
         \o unmapped_from(etl, src, map, junc, r + 1)

Take(s, n) == SubSeq(s, 1, IF Len(s) < n THEN Len(s) ELSE n)

\* the unmapped rows in table order, LIMIT batch_size
get_unmapped_records(etl, src, map, junc, batch_size) ==
    Take(unmapped_from(etl, src, map, junc, 1), batch_size)

\* ------------------------------------------------------------------------
\* Initial state: the configuration file and the database before the first process
\* ------------------------------------------------------------------------
IdlePeer == [pc |-> "idle", value |-> <<>>, target_id |-> 0, existing |-> FALSE]
IdleQuery == [pc |-> "idle"]

Logged(rec, failed, escaped, resolved, ret, trace) ==
    [rec |-> rec, failed |-> failed, escaped |-> escaped, resolved |-> resolved,
     ret |-> ret, trace |-> trace]

NoRecord == Logged(0, FALSE, FALSE, FALSE, FALSE, <<>>)

Init ==
    /\ config \in [etl : EtlTypes, settings : SettingsChoices, ai_threshold : {None}]
    /\ source \in SourceTables
    /\ mapping = [r \in 1..Len(source) |-> None]
    /\ junction = <<>>
    /\ synonyms = <<>>
    /\ matcher = [model |-> FALSE, option_embeddings |-> None, existing_options |-> <<>>]
    /\ backend = [load |-> FALSE, encode |-> "raise", ndim |-> 0]
    /\ backlog = 0
    /\ batches = <<>>
    /\ runs = 0
    /\ pc = "new"
    /\ iteration = 0
    /\ batch = <<>>
    /\ pos = 0
    /\ processed_in_batch = 0
    /\ processed_total = 0
    /\ current_run = None
    /\ start_calls = 0
    /\ end_calls = 0
    /\ fetches = 0
    /\ outcome = ""
    /\ raised = FALSE
    /\ last = NoRecord
    /\ failed_before = FALSE
    /\ faults = 0
    /\ peer = IdlePeer
    /\ query = IdleQuery

\* ------------------------------------------------------------------------
\* Actions
\* ------------------------------------------------------------------------
Cost(b) == IF b THEN 1 ELSE 0

\* main(): GenericETL(etl_type, config_path) in a new process; _init_ai_matcher builds
\* the matcher from the target table
Construct(outcome_of_backend) ==
    /\ pc \in {"new", "returned"}
    /\ runs < MaxRuns
    /\ runs' = runs + 1
    /\ matcher' = AIMatcherInit(outcome_of_backend, existing_options(TargetRows))
    /\ backend' = outcome_of_backend
    /\ backlog' = 0
    /\ batches' = <<>>
    /\ pc' = "ready"
    /\ iteration' = 0
    /\ batch' = <<>>
    /\ pos' = 0
    /\ processed_in_batch' = 0
    /\ processed_total' = 0
    /\ current_run' = None
    /\ start_calls' = 0
    /\ end_calls' = 0
    /\ fetches' = 0
    /\ outcome' = ""
    /\ raised' = FALSE
    /\ last' = NoRecord
    /\ failed_before' = FALSE
    /\ UNCHANGED <<config, source, dbvars, faults, peer, query>>

\* a loop that tests the cap with <=
loop_continues_inclusive(i, max_iterations) == i <= max_iterations

\* while iteration < max_iterations
loop_continues(i, max_iterations) == i < max_iterations

\* a for loop that an exception of a record ends
next_position_break(i, n, record_raised) == IF record_raised THEN n + 1 ELSE i + 1

\* except Exception ... continue: the for loop goes on with the next record, whether
\* the record at position i of the n records raised or not
next_position(i, n, record_raised) == i + 1

\* a run() that returns from the except block without a finally block
Return_without_end_run(how, escapes) ==
    /\ end_calls' = end_calls
    /\ outcome' = how
    /\ raised' = escapes
    /\ pc' = "returned"

\* the finally block of run(): monitoring.end_run(), then the closing log line, which
\* reads processed_total; `escapes`: an exception leaves run()
Finally(how, escapes) ==
    /\ end_calls' = end_calls + 1
    /\ outcome' = how
    /\ raised' = escapes
    /\ pc' = "returned"

\* run() up to the while loop: start_run, then the settings are read inside the try.
\* With settings None the read raises before processed_total is bound: the except
\* block logs, the finally block calls end_run and then fails on processed_total.
RunStart ==
    /\ pc = "ready"
    /\ start_calls' = start_calls + 1
    /\ current_run' = Some(NewMetrics)
    /\ backlog' = Len(unmapped_from(config.etl, source, mapping, junction, 1))
    /\ IF IsNone(config.settings)
       THEN /\ Finally("Failed", TRUE)
            /\ UNCHANGED <<iteration, processed_total>>
       ELSE /\ iteration' = 0
            /\ processed_total' = 0
            /\ IF loop_continues(0, max_iterations_of(config.settings))
               THEN /\ pc' = "fetching"
                    /\ UNCHANGED <<end_calls, outcome, raised>>
               ELSE Finally("IterationCapReached", FALSE)
    /\ UNCHANGED <<config, source, dbvars, matcher, backend, batches, runs, batch, pos,
                   processed_in_batch, fetches, last, failed_before, faults, peer, query>>

\* one pass through lines 85-97: open the batch session and fetch.  fetch_raises: the
\* session or the query raises, which ends the run through the except and finally blocks
FetchBatch(fetch_raises) ==
    /\ pc = "fetching"
    /\ faults + Cost(fetch_raises) <= MaxFaults
    /\ faults' = faults + Cost(fetch_raises)
    /\ fetches' = fetches + 1
    /\ LET records == get_unmapped_records(config.etl, source, mapping, junction,
                                           batch_size_of(config.settings))
       IN IF fetch_raises
          THEN /\ Finally("Failed", FALSE)
               /\ UNCHANGED <<batch, pos, processed_in_batch, last, failed_before>>
          ELSE IF records = <<>>
          THEN /\ Finally("Done", FALSE)
               /\ UNCHANGED <<batch, pos, processed_in_batch, last, failed_before>>
          ELSE /\ batch' = records
               /\ pos' = 1
               /\ processed_in_batch' = 0
               /\ last' = NoRecord
               /\ failed_before' = FALSE
               /\ pc' = "processing"
               /\ UNCHANGED <<end_calls, outcome, raised>>
    /\ UNCHANGED <<config, source, dbvars, matcher, backend, backlog, batches, runs,
                   iteration, processed_total, current_run, start_calls, peer, query>>

\* the body of `for i, record in enumerate(records, 1)` for the record at pos.
\* session_raises: opening the record's scope or merging the record raises;
\* commit_raises: the commit of _process_record raises;
\* scope_exit_raises: the commit that ends the record's session_scope raises.
\* Every exception is caught by the except of the loop body, which logs and continues.
ProcessRecord(session_raises, commit_raises, scope_exit_raises) ==
    /\ pc = "processing"
    /\ pos <= Len(batch)
    /\ failed_before' = (failed_before \/ last.failed)
    /\ IF session_raises
       THEN /\ faults < MaxFaults
            /\ pos' = next_position(pos, Len(batch), TRUE)
            /\ faults' = faults + 1
            /\ last' = Logged(batch[pos], TRUE, TRUE, FALSE, FALSE, <<>>)
            /\ UNCHANGED <<dbvars, current_run, processed_in_batch>>
       ELSE \E o \in _process_record(config.etl, matcher, config.ai_threshold,
                                     source[batch[pos]], batch[pos], synonyms, mapping,
                                     junction, current_run, faults, commit_raises) :
                /\ o.faults + Cost(scope_exit_raises) <= MaxFaults
                /\ faults' = o.faults + Cost(scope_exit_raises)
                /\ pos' = next_position(pos, Len(batch), o.errored \/ scope_exit_raises)
                /\ synonyms' = o.synonyms
                /\ mapping' = o.mapping
                /\ junction' = o.junction
                /\ current_run' = o.current_run
                /\ processed_in_batch' = IF o.ret THEN processed_in_batch + 1
                                         ELSE processed_in_batch
                /\ last' = Logged(batch[pos], o.errored \/ scope_exit_raises,
                                  scope_exit_raises, o.resolved, o.ret, o.trace)
    /\ UNCHANGED <<config, source, matcher, backend, backlog, batches, runs, pc, iteration,
                   batch, processed_total, start_calls, end_calls, fetches, outcome, raised,
                   peer, query>>

\* lines 118-125 and the end of the batch session: count the batch, advance the
\* iteration, commit the batch session, then loop or leave the while.
\* batch_commit_raises: that commit raises, which ends the run through except and finally
CompleteBatch(batch_commit_raises) ==
    /\ pc = "processing"
    /\ pos > Len(batch)
    /\ faults + Cost(batch_commit_raises) <= MaxFaults
    /\ faults' = faults + Cost(batch_commit_raises)
    /\ processed_total' = processed_total + processed_in_batch
    /\ iteration' = iteration + 1
    /\ batches' = Append(batches, [size |-> Len(batch), processed |-> processed_in_batch])
    /\ IF batch_commit_raises
       THEN Finally("Failed", FALSE)
       ELSE IF loop_continues(iteration + 1, max_iterations_of(config.settings))
       THEN /\ pc' = "fetching"
            /\ UNCHANGED <<end_calls, outcome, raised>>
       ELSE Finally("IterationCapReached", FALSE)
    /\ UNCHANGED <<config, source, dbvars, matcher, backend, backlog, runs, batch, pos,
                   processed_in_batch, current_run, start_calls, fetches, last,
                   failed_before, peer, query>>

Next ==
    \/ \E b \in BackendOutcomes : Construct(b)
    \/ RunStart
    \/ \E f \in BOOLEAN : FetchBatch(f)
    \/ \E s, c, x \in BOOLEAN : ProcessRecord(s, c, x)
    \/ \E b \in BOOLEAN : CompleteBatch(b)

Spec == Init /\ [][Next]_vars

\* the steps of run(): a process that has entered run() keeps executing
RunSteps ==
    \/ RunStart
    \/ \E f \in BOOLEAN : FetchBatch(f)
    \/ \E s, c, x \in BOOLEAN : ProcessRecord(s, c, x)
    \/ \E b \in BOOLEAN : CompleteBatch(b)

\* the runs over the table whose records are partly skipped and partly unmatched
InitFair ==
    /\ Init
    /\ source = TableWithSkipped
    /\ config.etl \in {EtlTest, EtlTestMulti}

SpecFair == InitFair /\ [][Next]_vars /\ WF_vars(RunSteps)

\* ------------------------------------------------------------------------
\* A second process of the same ETL type, inside _add_synonym for a semantic match of
\* its own.  The existence check (lines 259-262) and the insert with its commit
\* (lines 264-273) are two database round trips; the first process may run between.
\* ------------------------------------------------------------------------
PeerValues == { <<"A", " ">>, <<"a", " ">> }

PeerCheck(v, t) ==
    /\ peer.pc = "idle"
    /\ config.etl.has_dictionary
    /\ peer' = [pc |-> "checked", value |-> v, target_id |-> t,
                existing |-> synonym_exists(synonyms, config.etl.table_name, v)]
    /\ UNCHANGED <<config, source, dbvars, runvars, faults, query>>

PeerInsert ==
    /\ peer.pc = "checked"
    /\ synonyms' = IF peer.existing THEN synonyms
                   ELSE Append(synonyms, new_synonym(config.etl.table_name, peer.target_id,
                                                     peer.value))
    /\ peer' = [peer EXCEPT !.pc = "done"]
    /\ UNCHANGED <<config, source, mapping, junction, runvars, faults, query>>

InitConc ==
    /\ Init
    /\ config.etl = EtlTest
    /\ config.settings = Some([batch_size |-> None, max_iterations |-> None])

NextConc ==
    \/ Next
    \/ \E v \in PeerValues : \E t \in LearnIds : PeerCheck(v, t)
    \/ PeerInsert

SpecConc == InitConc /\ [][NextConc]_vars

\* ------------------------------------------------------------------------
\* The matcher on its own: a constructed AIMatcherService answering find_best_match
\* calls whose value, context and similarity_threshold the caller chooses
\* ------------------------------------------------------------------------
MatchValues == { <<"a">>, <<"q">> }
MatchContexts == { <<>>, <<[isdict |-> TRUE, value |-> <<"c">>, weight |-> Some(5)]>> }
MatchThresholds == { None, Some(0), Some(3), Some(7), Some(10) }
ConfiguredThresholds == { None, Some(5) }

\* a context entry: a {value, weight} record (weight None: the key is absent) or a scalar
Entry(value, weight) == [isdict |-> TRUE, value |-> value, weight |-> weight]
Scalar(value) == [isdict |-> FALSE, value |-> value, weight |-> None]

\* contexts of two entries: weights 1 and 3; the same with an empty second value; a
\* record without weight beside a scalar; two records of weight 0
WeightedContexts ==
    { << Entry(<<"c">>, Some(10)), Entry(<<"d">>, Some(30)) >>,
      << Entry(<<"c">>, Some(10)), Entry(<<>>, Some(30)) >>,
      << Entry(<<"c">>, None), Scalar(<<"d">>) >>,
      << Entry(<<"c">>, Some(0)), Entry(<<"d">>, Some(0)) >> }

InitMatch ==
    /\ config \in [etl : {EtlTest},
                   settings : {Some([batch_size |-> None, max_iterations |-> None])},
                   ai_threshold : ConfiguredThresholds]
    /\ source = TableWithContext
    /\ mapping = [r \in 1..Len(source) |-> None]
    /\ junction = <<>>
    /\ synonyms = <<>>
    /\ backend \in BackendOutcomes
    /\ matcher = AIMatcherInit(backend, existing_options(TargetRows))
    /\ backlog = 0
    /\ batches = <<>>
    /\ runs = 1
    /\ pc = "ready"
    /\ iteration = 0
    /\ batch = <<>>
    /\ pos = 0
    /\ processed_in_batch = 0
    /\ processed_total = 0
    /\ current_run = None
    /\ start_calls = 0
    /\ end_calls = 0
    /\ fetches = 0
    /\ outcome = ""
    /\ raised = FALSE
    /\ last = NoRecord
    /\ failed_before = FALSE
    /\ faults = 0
    /\ peer = IdlePeer
    /\ query = IdleQuery

\* a caller enters find_best_match(value, context, similarity_threshold)
Ask(value, context, supplied) ==
    /\ query.pc \in {"idle", "answered"}
    /\ query' = [pc |-> "asked", value |-> value, context |-> context, supplied |-> supplied]
    /\ UNCHANGED <<config, source, dbvars, runvars, faults, peer>>

\* find_best_match returns; sv: the similarities the backend answered for the value,
\* cv1, cv2: those it answered for the first and the second context value
Answer(sv, cv1, cv2) ==
    /\ query.pc = "asked"
    /\ LET cs == [i \in 1..Len(query.context) |-> IF i = 1 THEN cv1 ELSE cv2] IN
       query' = [pc |-> "answered", value |-> query.value, context |-> query.context,
                 supplied |-> query.supplied, similarities |-> sv,
                 context_similarities |-> cs,
                 result |-> find_best_match(matcher, config.ai_threshold, query.value,
                                            query.context, query.supplied, sv, cs)]
    /\ UNCHANGED <<config, source, dbvars, runvars, faults, peer>>

NextMatch ==
    \/ \E value \in MatchValues : \E context \in MatchContexts \cup WeightedContexts :
       \E supplied \in MatchThresholds : Ask(value, context, supplied)
    \/ \E sv \in SimVectors(Len(TargetRows)) :
       \E cv1, cv2 \in ContextSimVectors(Len(TargetRows)) : Answer(sv, cv1, cv2)

SpecMatch == InitMatch /\ [][NextMatch]_vars

\* ------------------------------------------------------------------------
\* Value splitting on its own: _split_values applied to a raw field value
\* ------------------------------------------------------------------------
RawAlphabet == {"a", " ", "/", ","}

\* the raw field "value1/value2, value3", its values one letter long
RawExample == <<"a", "/", "b", ",", " ", "c">>

RawValues == UNION { [1..n -> RawAlphabet] : n \in 0..MaxRawLen } \cup {RawExample}

InitSplit ==
    /\ InitMatch
    /\ backend = [load |-> TRUE, encode |-> "array", ndim |-> 2]
    /\ config.ai_threshold = None

\* a record's value field is read by an ETL of the given type
ReadValue(etl, raw_value) ==
    /\ query.pc = "idle"
    /\ query' = [pc |-> "read", etl |-> etl, raw_value |-> raw_value]
    /\ UNCHANGED <<config, source, dbvars, runvars, faults, peer>>

\* _split_values(raw_value) returns
SplitValue ==
    /\ query.pc = "read"
    /\ query' = [pc |-> "split", etl |-> query.etl, raw_value |-> query.raw_value,
                 candidates |-> _split_values(query.etl, query.raw_value)]
    /\ UNCHANGED <<config, source, dbvars, runvars, faults, peer>>

NextSplit ==
    \/ \E etl \in {EtlTest, EtlTestMulti} : \E raw_value \in RawValues :
           ReadValue(etl, raw_value)
    \/ SplitValue

SpecSplit == InitSplit /\ [][NextSplit]_vars

\* ------------------------------------------------------------------------
\* Properties
\* ------------------------------------------------------------------------
\* the ids a record resolved, in candidate order
RECURSIVE ResolvedIds(_)
ResolvedIds(trace) ==
    IF trace = <<>> THEN <<>>
    ELSE (IF Head(trace).kind \in {"direct", "ai"} THEN <<Get(Head(trace).id)>> ELSE <<>>)
         \o ResolvedIds(Tail(trace))

RECURSIVE JunctionTargets(_, _)
JunctionTargets(junc, rec_id) ==
    IF junc = <<>> THEN <<>>
    ELSE (IF Head(junc).source_id = rec_id THEN <<Head(junc).target_id>> ELSE <<>>)
         \o JunctionTargets(Tail(junc), rec_id)

\* the mapping of the record logged in e is in the database: the mapping-id column
\* holds its first resolved id, or the junction table one row per resolved id
Committed(e) ==
    IF config.etl.multiple_values
    THEN JunctionTargets(junction, e.rec) = ResolvedIds(e.trace)
    ELSE mapping[e.rec] = Some(ResolvedIds(e.trace)[1])

\* C1 (record isolation): the for loop of run() visits the records of a batch one by
\* one whatever happened to the earlier ones, the batch is left only after its last
\* record, and a record that comes after a record that raised, resolves at least one
\* id and does not raise itself has its mapping committed.
RecordIsolation ==
    /\ (pc = "processing" /\ pos > 1) => (pos <= Len(batch) + 1 /\ last.rec = batch[pos - 1])
    /\ (pc \in {"fetching", "returned"} /\ batch # <<>>)
          => (pos = Len(batch) + 1 /\ last.rec = batch[Len(batch)])
    /\ (failed_before /\ last.resolved /\ ~last.failed) => (last.ret /\ Committed(last))

RecordIsolationWitness ==
    /\ failed_before
    /\ last.resolved
    /\ ~last.failed
    /\ Committed(last)
    /\ pos = Len(batch) + 1

\* C2 (deterministic precedence): every valid candidate that equals the name of a
\* canonical row resolves to that row's id as a direct match, and find_best_match is
\* not called for it.
DeterministicPrecedence ==
    \A k \in 1..Len(last.trace) : \A i \in 1..Len(TargetRows) :
        (last.trace[k].kind # "invalid" /\ last.trace[k].value = TargetRows[i].name)
            => /\ last.trace[k].kind = "direct"
               /\ last.trace[k].id = Some(TargetRows[i].id)
               /\ ~last.trace[k].ai_called

\* the rows of the dictionary table that the existence check takes for (table, value)
SynonymRows(syn, table, value) ==
    {i \in 1..Len(syn) : /\ syn[i].table_name = table
                         /\ Lower(Strip(syn[i].name)) = Lower(Strip(value))}

\* C3 (idempotence of synonym learning): from every dictionary table a run reaches,
\* learning (v, t) twice in a row leaves exactly one row for (table, trimmed v), and
\* the second call inserts nothing; DatabaseManager.add_synonym answers False the
\* second time, and True the first time exactly when the row was new.  The dictionary
\* changes only while a record is processed, so the states at that point (and the
\* initial one) carry every table a run reaches.
SynonymLearningIdempotent ==
    pc \in {"new", "processing"} =>
    \A v \in LearnValues : \A t \in LearnIds :
        LET a1 == _add_synonym(config.etl, synonyms, v, t, FALSE)
            a2 == _add_synonym(config.etl, a1.synonyms, v, t, FALSE)
            b1 == add_synonym(synonyms, v, config.etl.table_name, t, FALSE)
            b2 == add_synonym(b1.synonyms, v, config.etl.table_name, t, FALSE)
        IN /\ a2.synonyms = a1.synonyms
           /\ ~a1.raised /\ ~a2.raised
           /\ config.etl.has_dictionary
                => Cardinality(SynonymRows(a2.synonyms, config.etl.table_name, v)) = 1
           /\ b2.synonyms = b1.synonyms
           /\ ~b2.result
           /\ b1.result = (SynonymRows(synonyms, config.etl.table_name, v) = {})
           /\ Cardinality(SynonymRows(b2.synonyms, config.etl.table_name, v)) = 1

\* rows 1 and 3 hold the same raw value, both were resolved by the semantic matcher
\* one after the other, and the dictionary holds one row for it
SynonymLearningWitness ==
    /\ config.etl = EtlTest
    /\ source[1].value = source[3].value
    /\ mapping[1] # None
    /\ last.rec = 3
    /\ last.ret
    /\ Len(last.trace) = 1
    /\ last.trace[1].kind = "ai"
    /\ Cardinality(SynonymRows(synonyms, TargetTable, Get(source[3].value))) = 1

\* C4 (synonym uniqueness): the dictionary table never holds two rows with the same
\* table and the same trimmed name, compared without regard to case.
SynonymUniqueness ==
    \A i, j \in 1..Len(synonyms) :
        (/\ i # j
         /\ synonyms[i].table_name = synonyms[j].table_name
         /\ Lower(Strip(synonyms[i].name)) = Lower(Strip(synonyms[j].name))) => FALSE

\* ------------------------------------------------------------------------
\* Batch orchestration
\* ------------------------------------------------------------------------
Unmapped == unmapped_from(config.etl, source, mapping, junction, 1)

RunReturnedNormally == pc = "returned" /\ outcome \in {"Done", "IterationCapReached"}

RunCounters ==
    (pc \in {"fetching", "processing", "returned"} /\ ~IsNone(config.settings))
        => /\ fetches <= max_iterations_of(config.settings)
           /\ iteration <= max_iterations_of(config.settings)
           /\ iteration = Len(batches)
           /\ (pc = "returned" /\ outcome = "Done") => fetches = iteration + 1
           /\ (pc = "returned" /\ outcome = "IterationCapReached")
                  => (iteration = max_iterations_of(config.settings) /\ fetches = iteration)

\* the iteration counter moves by one, exactly when a batch has been fully iterated; a
\* fetch that ends the run touches neither the counters nor the database
IterationAdvance ==
    /\ (pc = "processing" /\ pos > Len(batch)) => iteration' = iteration + 1
    /\ (pc = "processing" /\ pos <= Len(batch)) => iteration' = iteration
    /\ pc = "fetching" => iteration' = iteration
    /\ (pc = "fetching" /\ pc' = "returned")
           => UNCHANGED <<dbvars, current_run, processed_total, batches, batch, pos>>

\* C6 (termination) as stated: every run ends, in Done or IterationCapReached, within
\* max_iterations fetches, the counter advancing once per completed batch.
RunTerminationAsStated ==
    /\ [](RunCounters /\ (pc = "returned" => outcome \in {"Done", "IterationCapReached"}))
    /\ [][IterationAdvance]_vars
    /\ (pc = "ready") ~> (pc = "returned")

\* C6 (termination), amended: every run ends, in Done, in IterationCapReached or on the
\* failure path (settings unreadable, batch fetch or batch commit raising); the batch
\* fetches never exceed max_iterations; the counter advances by one exactly when a
\* non-empty batch has been fully iterated; an empty fetch ends the run at once, with
\* no record processed and the counter as it was.
RunTermination ==
    /\ [](RunCounters /\ (pc = "returned" => outcome \in {"Done", "IterationCapReached", "Failed"}))
    /\ [][IterationAdvance]_vars
    /\ (pc = "ready") ~> (pc = "returned")

RunTerminationWitness ==
    /\ pc = "returned"
    /\ outcome = "IterationCapReached"
    /\ max_iterations_of(config.settings) = 2
    /\ iteration = 2
    /\ fetches = 2

\* C7 (a run always ends with a summary): run() calls start_run once before any batch
\* work and end_run once after it, on every path, and lets no exception escape.
RunAlwaysSummarised ==
    /\ pc \in {"new", "ready"} => (start_calls = 0 /\ end_calls = 0)
    /\ pc \in {"fetching", "processing"} => (start_calls = 1 /\ end_calls = 0)
    /\ pc = "returned" => (start_calls = 1 /\ end_calls = 1 /\ ~raised)

\* ------------------------------------------------------------------------
\* Degraded mode
\* ------------------------------------------------------------------------
BackendFailed == ~backend.load \/ backend.encode = "raise" \/ backend.ndim # 2

\* C8 (degraded mode): a matcher whose backend failed to load, or whose option
\* embeddings could not be computed or have the wrong rank, is disabled; find_best_match
\* then answers None for every value, context and threshold; and a record's values that
\* the direct lookup finds are still resolved to the ids it found and committed.
DegradedMode ==
    BackendFailed
        => /\ Disabled(matcher)
           /\ \A value \in MatchValues : \A context \in MatchContexts :
              \A supplied \in MatchThresholds :
              \A sv \in SimVectors(Len(TargetRows)) :
              \A cv \in [1..Len(context) -> ContextSimVectors(Len(TargetRows))] :
                  find_best_match(matcher, config.ai_threshold, value, context, supplied,
                                  sv, cv) = None
           /\ \A k \in 1..Len(last.trace) :
                  /\ last.trace[k].kind # "ai"
                  /\ TruthyInt(last.trace[k].direct)
                         => (last.trace[k].kind = "direct"
                             /\ last.trace[k].id = last.trace[k].direct)
           /\ (last.resolved /\ ~last.failed) => (last.ret /\ Committed(last))

DegradedModeWitness ==
    /\ BackendFailed
    /\ backend.load
    /\ pc = "processing"
    /\ last.ret
    /\ Committed(last)
    /\ \E k \in 1..Len(last.trace) : last.trace[k].kind = "direct"
    /\ \E k \in 1..Len(last.trace) : last.trace[k].kind = "miss" /\ last.trace[k].ai_called

\* ------------------------------------------------------------------------
\* Thresholds
\* ------------------------------------------------------------------------
\* the boosted similarities of an answered query, as numerators over Boosted.den
Boosted == _apply_context_weights(query.similarities, query.context,
                                  query.context_similarities)

\* the numerator of the best boosted similarity
BestSimilarity == Max({Boosted.num[j] : j \in 1..Len(Boosted.num)})

Answered == query.pc = "answered" /\ ~Disabled(matcher)

StatedThreshold ==
    IF query.supplied # None THEN Get(query.supplied)
    ELSE IF config.ai_threshold # None THEN Get(config.ai_threshold)
    ELSE DefaultThreshold

\* C10 (threshold selection): the threshold find_best_match compares with is the one
\* the caller supplied, whatever its value in [0, 1]; without one, the configured
\* threshold; without that, 0.7.
ThresholdSelection ==
    Answered => ((query.result # None) <=> (BestSimilarity >= StatedThreshold * Boosted.den))

\* ------------------------------------------------------------------------
\* Context weights
\* ------------------------------------------------------------------------
\* the factor _apply_context_weights multiplies onto the similarity vector of entry i,
\* read off its result for base similarity 0 and a similarity 1 of entry i alone, as a
\* numerator over total_weight(context)
WeightFactor(context, i) ==
    _apply_context_weights(<<0>>, context,
                           [k \in 1..Len(context) |-> <<IF k = i THEN 1 ELSE 0>>]).num[1]

RECURSIVE SumFactors(_, _)
SumFactors(context, S) ==
    IF S = {} THEN 0
    ELSE LET i == Min(S) IN WeightFactor(context, i) + SumFactors(context, S \ {i})

\* the entries that carry a weight of their own and are added
Weighted(context) == {i \in Applied(context) : context[i].weight # None}

\* C11 (weight ratio): the factors of any two weighted entries are in the ratio of
\* their weights, 1:3 for weights 1 and 3, and the boosted vector is the base vector
\* plus each entry's similarity vector times its factor, whatever the similarities.
WeightRatio ==
    Answered
        => /\ \A i, j \in Weighted(query.context) :
                  WeightFactor(query.context, i) * Get(query.context[j].weight)
                      = WeightFactor(query.context, j) * Get(query.context[i].weight)
           /\ \A j \in 1..Len(query.similarities) :
                  Boosted.num[j]
                      = query.similarities[j] * Boosted.den
                        + SumOver(Applied(query.context),
                                  [i \in 1..Len(query.context) |->
                                      [k \in 1..Len(query.similarities) |->
                                          query.context_similarities[i][k]
                                              * WeightFactor(query.context, i)]], j)

WeightRatioWitness ==
    /\ Answered
    /\ Weighted(query.context) = {1, 2}
    /\ Get(query.context[1].weight) = 10
    /\ Get(query.context[2].weight) = 30
    /\ 3 * WeightFactor(query.context, 1) = WeightFactor(query.context, 2)
    /\ WeightFactor(query.context, 1) > 0
    /\ query.context_similarities[1] # query.context_similarities[2]

\* C12 (weights sum to one): for a context with at least one {value, weight} record,
\* the factors that are added onto the base vector sum to 1.
WeightsSumToOne ==
    (Answered /\ \E i \in 1..Len(query.context) : query.context[i].isdict)
        => SumFactors(query.context, Applied(query.context)) = total_weight(query.context)

\* ------------------------------------------------------------------------
\* Validation
\* ------------------------------------------------------------------------
ValidationEtls == EtlTypes \cup {EtlDigitPrefix}

ValidationValues ==
    { <<>>, <<"1">>, <<" ", "1", " ">>, <<"1", "0">>, <<"1", "a">>, <<"a", "1">>, <<"a">>,
      <<" ">> }

\* the values of ValidationValues that the ETL type's validation is to skip: the empty
\* one, and those whose trimmed text the skip pattern matches at its start
SkippedValues(etl) ==
    IF etl.skip_if_matches = PatternAllDigits
    THEN { <<>>, <<"1">>, <<" ", "1", " ">>, <<"1", "0">> }
    ELSE IF etl.skip_if_matches = PatternDigitPrefix
    THEN { <<>>, <<"1">>, <<" ", "1", " ">>, <<"1", "0">>, <<"1", "a">> }
    ELSE { <<>> }

\* a candidate of a record that validation is to skip
InvalidCandidate(etl, value) ==
    \/ value = <<>>
    \/ etl.skip_if_matches = PatternAllDigits /\ AllDigits(Strip(value))
    \/ etl.skip_if_matches = PatternDigitPrefix /\ Strip(value) # <<>> /\ IsDigit(Strip(value)[1])

AllInvalid(trace) ==
    trace # <<>> /\ \A k \in 1..Len(trace) : trace[k].kind = "invalid"

\* what holds of the record processed last
ValidationSkips ==
    /\ \A etl \in ValidationEtls : \A v \in ValidationValues :
           is_valid_value(etl, v) <=> v \notin SkippedValues(etl)
    /\ \A k \in 1..Len(last.trace) :
           /\ (last.trace[k].kind = "invalid")
                  <=> InvalidCandidate(config.etl, last.trace[k].value)
           /\ last.trace[k].kind = "invalid"
                  => /\ last.trace[k].direct = None
                     /\ last.trace[k].id = None
                     /\ ~last.trace[k].ai_called
    /\ (AllInvalid(last.trace) /\ ~last.escaped)
           => (~last.ret /\ ~last.failed /\ ~last.resolved)

\* a step that processes a record whose candidates are all invalid leaves the tables
\* and the metrics as they were
InvalidRecordStep ==
    (pc = "processing" /\ pos <= Len(batch) /\ AllInvalid(last'.trace))
        => UNCHANGED <<dbvars, current_run, processed_in_batch>>

\* C13 (validation short-circuit): an empty candidate, or one whose trimmed text the skip
\* pattern matches at its start, reaches neither matcher, resolves no id, creates no
\* synonym and counts as no error; a record whose candidates are all invalid makes
\* _process_record return False.
ValidationShortCircuit == []ValidationSkips /\ [][InvalidRecordStep]_vars

ValidationShortCircuitWitness ==
    /\ pc = "processing"
    /\ config.etl = EtlTest
    /\ last.rec = 2
    /\ source[2].value = Some(<<"1">>)
    /\ AllInvalid(last.trace)
    /\ ~last.ret
    /\ mapping[1] # None

\* ------------------------------------------------------------------------
\* Value splitting
\* ------------------------------------------------------------------------
\* the positions that bound the segments of s: its separators and its two ends
SegmentBounds(s) == {0, Len(s) + 1} \cup {i \in 1..Len(s) : s[i] \in {"/", ","}}

\* the trimmed non-empty segments of s that start after position p, in order
RECURSIVE SegmentsAfter(_, _)
SegmentsAfter(s, p) ==
    IF p > Len(s) THEN <<>>
    ELSE LET q == Min({b \in SegmentBounds(s) : b > p})
             segment == Strip(SubSeq(s, p + 1, q - 1))
         IN (IF segment # <<>> THEN <<segment>> ELSE <<>>) \o SegmentsAfter(s, q)

\* C14 (value splitting): for a multi-valued type, _split_values returns the trimmed
\* non-empty segments between commas and slashes in their order ("a/b, c" gives a, b,
\* c); no candidate is empty, starts or ends with white space or holds a separator; for
\* a single-valued type the raw field is the one candidate.
ValueSplitting ==
    query.pc = "split"
        => IF query.etl.multiple_values
           THEN /\ query.candidates = SegmentsAfter(query.raw_value, 0)
                /\ \A k \in 1..Len(query.candidates) :
                       LET c == query.candidates[k] IN
                       /\ c # <<>>
                       /\ c[1] # " "
                       /\ c[Len(c)] # " "
                       /\ \A i \in 1..Len(c) : c[i] \notin {"/", ","}
                /\ query.raw_value = RawExample
                       => query.candidates = << <<"a">>, <<"b">>, <<"c">> >>
           ELSE query.candidates = <<query.raw_value>>

ValueSplittingWitness ==
    /\ query.pc = "split"
    /\ query.etl.multiple_values
    /\ query.raw_value = RawExample
    /\ query.candidates = << <<"a">>, <<"b">>, <<"c">> >>

\* ------------------------------------------------------------------------
\* Failures of one record
\* ------------------------------------------------------------------------
\* the loop body has just handled a record whose processing raised
RecordRaised == pc = "processing" /\ pos' = pos + 1 /\ last'.failed

\* monitoring.record_error was called exactly once, and nothing else was counted
ErrorRecordedOnce ==
    /\ current_run # None
    /\ current_run' # None
    /\ Get(current_run').records_failed = Get(current_run).records_failed + 1
    /\ Get(current_run').records_processed = Get(current_run).records_processed

\* C15 (per-record error handling): for every record whose processing raises anywhere
\* between opening its scope and committing it, the exception stays inside the batch
\* loop (the loop moves to the next record) and monitoring.record_error is called
\* exactly once for that record.
RecordErrorRecorded == [][RecordRaised => ErrorRecordedOnce]_vars

\* ------------------------------------------------------------------------
\* Records that stay unmapped
\* ------------------------------------------------------------------------
\* no candidate of the record resolved: each one was skipped as invalid or missed by
\* both matchers (a record whose value is empty has no candidate at all)
NoCandidateResolved(e) ==
    /\ ~e.resolved
    /\ \A k \in 1..Len(e.trace) : e.trace[k].kind \in {"invalid", "miss"}

\* _process_record has just returned for the record at pos
RecordMissed ==
    /\ pc = "processing"
    /\ pos' = pos + 1
    /\ last'.rec = batch[pos]
    /\ ~last'.escaped
    /\ NoCandidateResolved(last')

\* the three tables and the metrics are as they were, and the record is in the result
\* of the unmapped-record query
LeftUntouched ==
    /\ UNCHANGED <<mapping, junction, synonyms, current_run>>
    /\ ~last'.ret
    /\ ~last'.failed
    /\ processed_in_batch' = processed_in_batch
    /\ IsNone(mapping'[batch[pos]])
    /\ ~has_junction(junction', batch[pos])
    /\ \E k \in 1..Len(get_unmapped_records(config.etl, source, mapping', junction',
                                            batch_size_of(config.settings))) :
          get_unmapped_records(config.etl, source, mapping', junction',
                               batch_size_of(config.settings))[k] = batch[pos]

\* C16 (match miss): when none of a record's candidates resolves, _process_record
\* returns False and leaves the mapping id null, inserts no association row and no
\* synonym, counts neither a success nor an error, and the record is still returned
\* by the unmapped-record query.
MatchMissUntouched == [][RecordMissed => LeftUntouched]_vars

\* a record with a candidate both matchers missed has been handled and is still unmapped
MatchMissUntouchedWitness ==
    /\ pc = "processing"
    /\ last.rec # 0
    /\ ~last.failed
    /\ NoCandidateResolved(last)
    /\ \E k \in 1..Len(last.trace) : last.trace[k].kind = "miss"
    /\ is_unmapped(config.etl, source, mapping, junction, last.rec)

\* ------------------------------------------------------------------------
\* Records that are mapped
\* ------------------------------------------------------------------------
\* the association rows of source row r
AssociationRows(junc, r) == {i \in 1..Len(junc) : junc[i].source_id = r}

\* the mapping id of r is set, or r has at least one association row
Mapped(map, junc, r) == map[r] # None \/ AssociationRows(junc, r) # {}

\* the records of the fetched batch that the for loop has still to visit are unmapped,
\* and no record is in the batch twice
BatchHoldsUnmapped ==
    pc = "processing" =>
        /\ \A k \in pos..Len(batch) : ~Mapped(mapping, junction, batch[k])
        /\ \A j, k \in 1..Len(batch) : batch[j] = batch[k] => j = k

\* no step changes the mapping id or the association rows of a mapped record
MappingFrozen ==
    \A r \in 1..Len(source) :
        Mapped(mapping, junction, r) =>
            /\ mapping'[r] = mapping[r]
            /\ AssociationRows(junction', r) = AssociationRows(junction, r)
            /\ \A i \in AssociationRows(junction, r) : junction'[i] = junction[i]

\* C17 (mapped records are not reprocessed): a record whose mapping id is set or that
\* has an association row is in no batch that is fetched afterwards, in this run or a
\* later one, and its mapping id and association rows never change again.
MappedOnce == []BatchHoldsUnmapped /\ [][MappingFrozen]_vars

\* a batch fetched after a record was mapped: the record is not in it
MappedOnceWitness ==
    /\ pc = "processing"
    /\ pos = 1
    /\ (fetches > 1 \/ runs > 1)
    /\ \E r \in 1..Len(source) :
          /\ Mapped(mapping, junction, r)
          /\ \A k \in 1..Len(batch) : batch[k] # r

\* ------------------------------------------------------------------------
\* Runs without end: the ETL is started again and again (a scheduled job) over the
\* table whose second record has an empty value and whose third record is the name of
\* a canonical row
\* ------------------------------------------------------------------------
InitConverge ==
    /\ Init
    /\ source = TableWithSeparators
    /\ config.etl = EtlTest
    /\ config.settings # None

\* main() once more, after the runs counted by MaxRuns
NextRun(outcome_of_backend) ==
    /\ pc = "returned"
    /\ runs = MaxRuns
    /\ matcher' = AIMatcherInit(outcome_of_backend, existing_options(TargetRows))
    /\ backend' = outcome_of_backend
    /\ backlog' = 0
    /\ batches' = <<>>
    /\ pc' = "ready"
    /\ iteration' = 0
    /\ batch' = <<>>
    /\ pos' = 0
    /\ processed_in_batch' = 0
    /\ processed_total' = 0
    /\ current_run' = None
    /\ start_calls' = 0
    /\ end_calls' = 0
    /\ fetches' = 0
    /\ outcome' = ""
    /\ raised' = FALSE
    /\ last' = NoRecord
    /\ failed_before' = FALSE
    /\ UNCHANGED <<config, source, dbvars, runs, faults, peer, query>>

NextConverge ==
    \/ Next
    \/ \E b \in BackendOutcomes : NextRun(b)

\* every run that is started executes to its end, and a next run is always started
SpecConverge ==
    /\ InitConverge
    /\ [][NextConverge]_vars
    /\ WF_vars(RunSteps)
    /\ WF_vars(\E b \in BackendOutcomes : Construct(b))
    /\ WF_vars(\E b \in BackendOutcomes : NextRun(b))

\* the value of source row r has a valid candidate that the deterministic matcher
\* resolves to an id the loop accepts
Resolvable(r) ==
    /\ TruthyText(source[r].value)
    /\ \E k \in 1..Len(_split_values(config.etl, Get(source[r].value))) :
          LET v == _split_values(config.etl, Get(source[r].value))[k] IN
          /\ is_valid_value(config.etl, v)
          /\ TruthyInt(_find_direct_match(config.etl, synonyms, v, FALSE))

\* C18 (convergence) as stated: every unmapped record with a valid candidate that a
\* matcher resolves is eventually mapped when the runs are repeated, whatever else is
\* in the backlog and whatever the batch size.
Convergence ==
    \A r \in 1..Len(TableWithSeparators) :
        (Resolvable(r) /\ ~Mapped(mapping, junction, r)) ~> Mapped(mapping, junction, r)

\* ------------------------------------------------------------------------
\* Learned synonyms and the deterministic matcher
\* ------------------------------------------------------------------------
\* the deterministic matcher finds nothing it accepts for v, so the semantic matcher
\* is asked
SemanticPathTaken(etl, syn, v) ==
    is_valid_value(etl, v) /\ ~TruthyInt(_find_direct_match(etl, syn, v, FALSE))

\* after _add_synonym(v, t) the deterministic matcher answers t for v
LearnedThenFound(etl, syn, v, t) ==
    _find_direct_match(etl, _add_synonym(etl, syn, v, t, FALSE).synonyms, v, FALSE) = Some(t)

\* C19 (learning feeds the deterministic path) as stated: once a semantic match of raw
\* value v to target id t has succeeded with a dictionary table configured, every later
\* _find_direct_match(v) returns t, whatever the case and the surrounding whitespace of
\* v and whatever synonyms exist already.
LearningFeedsDirectMatch ==
    (pc \in {"new", "processing"} /\ config.etl.has_dictionary) =>
        /\ \A v \in LearnValues : \A t \in LearnIds :
              SemanticPathTaken(config.etl, synonyms, v)
                  => LearnedThenFound(config.etl, synonyms, v, t)
        /\ ~last.failed =>
              \A k \in 1..Len(last.trace) :
                  last.trace[k].kind = "ai" =>
                      _find_direct_match(config.etl, synonyms, last.trace[k].value, FALSE)
                          = last.trace[k].id

\* ------------------------------------------------------------------------
\* A synonym insert that fails
\* ------------------------------------------------------------------------
\* the last candidate handled for the record in e was resolved by the semantic matcher
\* and the dictionary table holds no synonym for it: the insert of _add_synonym raised
\* (an insert that succeeds, or a synonym found, leaves one)
InsertFailed(e, syn) ==
    /\ config.etl.has_dictionary
    /\ ~e.escaped
    /\ e.trace # <<>>
    /\ e.trace[Len(e.trace)].kind = "ai"
    /\ ~synonym_exists(syn, config.etl.table_name, e.trace[Len(e.trace)].value)

\* the loop body has just handled the record at pos, and the insert failed
LearningFailed ==
    /\ pc = "processing"
    /\ pos <= Len(batch)
    /\ pos' # pos
    /\ last'.rec = batch[pos]
    /\ InsertFailed(last', synonyms')

\* the except block of _process_record ran: one error counted, False returned, nothing
\* of the record's mapping persisted, and the for loop is at the next record
FailureSurfaced ==
    /\ pc' = "processing"
    /\ pos' = pos + 1
    /\ UNCHANGED batch
    /\ last'.failed
    /\ ~last'.ret
    /\ ErrorRecordedOnce
    /\ processed_in_batch' = processed_in_batch
    /\ UNCHANGED <<mapping, junction>>
    /\ ~Mapped(mapping', junction', batch[pos])

\* C20 (learning failure): when the insert of a synonym raises while a record is
\* processed, _process_record counts one processing error and returns False, neither
\* the mapping id nor an association row of that record is written, and the loop goes
\* on with the following records.
LearningFailureIsolated == [][LearningFailed => FailureSurfaced]_vars

\* the insert failed for a record that is not the last of its batch: the record is
\* unmapped, one error is counted, and the next record is about to be processed
LearningFailureIsolatedWitness ==
    /\ pc = "processing"
    /\ last.rec # 0
    /\ InsertFailed(last, synonyms)
    /\ last.failed
    /\ ~last.ret
    /\ ~Mapped(mapping, junction, last.rec)
    /\ Get(current_run).records_failed = 1
    /\ pos <= Len(batch)

\* ------------------------------------------------------------------------
\* A batch fetch that fails
\* ------------------------------------------------------------------------
\* the unmapped-record query of this step raised: one more fetch, no batch came of it
FetchRaised ==
    /\ pc = "fetching"
    /\ fetches' = fetches + 1
    /\ outcome' = "Failed"

\* the run is over: nothing was processed or written, the iteration counter is where
\* it was, end_run was called, and nothing escaped run()
RunEndedByFetch ==
    /\ pc' = "returned"
    /\ iteration' = iteration
    /\ end_calls' = end_calls + 1
    /\ start_calls' = 1
    /\ ~raised'
    /\ UNCHANGED <<dbvars, current_run, batch, pos, processed_in_batch, processed_total,
                   batches, last>>

\* the state a failed fetch leaves: one fetch more than batches completed
ReturnedAfterFetchFailure ==
    /\ pc = "returned"
    /\ outcome = "Failed"
    /\ fetches = Len(batches) + 1

\* C21 (batch-fetch failure): when the unmapped-record query of an iteration raises,
\* no record of that iteration is processed, the iteration counter is not advanced,
\* the run ends through the except and finally blocks with end_run called once, and
\* no further fetch is made by that run.
FetchFailureFatal ==
    /\ [][FetchRaised => RunEndedByFetch]_vars
    /\ [][(ReturnedAfterFetchFailure /\ runs' = runs) => UNCHANGED vars]_vars
    /\ [](ReturnedAfterFetchFailure => (iteration = Len(batches) /\ end_calls = 1))

\* the query of the second iteration raised, after a first batch was completed
FetchFailureFatalWitness ==
    /\ ReturnedAfterFetchFailure
    /\ fetches = 2
    /\ iteration = 1
    /\ end_calls = 1
    /\ ~raised

\* ------------------------------------------------------------------------
\* Startup that fails
\* ------------------------------------------------------------------------
\* main(): GenericETL(etl_type, config_path) raises: _init_config (file or ETL type),
\* _init_models, DatabaseManager() or the query of _init_ai_matcher (database not
\* reachable).  The except of main() prints the error and the traceback; run() is never
\* entered, so neither start_run nor end_run is called, and the process ends.
ConstructFails ==
    /\ pc \in {"new", "returned"}
    /\ runs < MaxRuns
    /\ faults < MaxFaults
    /\ faults' = faults + 1
    /\ runs' = runs + 1
    /\ matcher' = [model |-> FALSE, option_embeddings |-> None, existing_options |-> <<>>]
    /\ backend' = [load |-> FALSE, encode |-> "raise", ndim |-> 0]
    /\ backlog' = 0
    /\ batches' = <<>>
    /\ pc' = "returned"
    /\ iteration' = 0
    /\ batch' = <<>>
    /\ pos' = 0
    /\ processed_in_batch' = 0
    /\ processed_total' = 0
    /\ current_run' = None
    /\ start_calls' = 0
    /\ end_calls' = 0
    /\ fetches' = 0
    /\ outcome' = "InitFailed"
    /\ raised' = FALSE
    /\ last' = NoRecord
    /\ failed_before' = FALSE
    /\ UNCHANGED <<config, source, dbvars, peer, query>>

NextStartup ==
    \/ Next
    \/ ConstructFails

SpecStartup == Init /\ [][NextStartup]_vars

\* the constructor of the last process raised
InitializationFailed == pc = "returned" /\ outcome = "InitFailed"

\* C22 (initialization errors) as stated: an error raised while GenericETL is
\* constructed propagates to the top of the run, and the end_run summary is still
\* produced before the error is reported.
InitErrorSummarised == InitializationFailed => end_calls = 1

\* SentenceTransformer(model_name) raised when the matcher of this process was built
BackendUnavailable == pc # "new" /\ outcome # "InitFailed" /\ ~backend.load

\* no batch was fetched and no record processed by this process
NoBatchWork ==
    /\ pc \notin {"fetching", "processing"}
    /\ fetches = 0
    /\ batch = <<>>

\* C23 (initialization errors are fatal) as stated: when the embedding backend or the
\* database connection is unavailable at startup, the run is aborted before any batch
\* is fetched and before any record is processed.
InitErrorsFatal == (InitializationFailed \/ BackendUnavailable) => NoBatchWork

\* ------------------------------------------------------------------------
\* A matcher built over a target table of no row, or of one row
\* ------------------------------------------------------------------------
FewOptions == { <<>>, Take(existing_options(TargetRows), 1) }

InitFewOptions ==
    /\ config \in [etl : {EtlTest},
                   settings : {Some([batch_size |-> None, max_iterations |-> None])},
                   ai_threshold : ConfiguredThresholds]
    /\ source = TableWithContext
    /\ mapping = [r \in 1..Len(source) |-> None]
    /\ junction = <<>>
    /\ synonyms = <<>>
    /\ backend \in BackendOutcomes
    /\ \E options \in FewOptions : matcher = AIMatcherInit(backend, options)
    /\ backlog = 0
    /\ batches = <<>>
    /\ runs = 1
    /\ pc = "ready"
    /\ iteration = 0
    /\ batch = <<>>
    /\ pos = 0
    /\ processed_in_batch = 0
    /\ processed_total = 0
    /\ current_run = None
    /\ start_calls = 0
    /\ end_calls = 0
    /\ fetches = 0
    /\ outcome = ""
    /\ raised = FALSE
    /\ last = NoRecord
    /\ failed_before = FALSE
    /\ faults = 0
    /\ peer = IdlePeer
    /\ query = IdleQuery

\* the rows of the similarity vector: one per canonical option
OptionRows == Len(matcher.existing_options)

NextFewOptions ==
    \/ \E value \in MatchValues : \E context \in MatchContexts \cup WeightedContexts :
       \E supplied \in MatchThresholds : Ask(value, context, supplied)
    \/ \E sv \in SimVectors(OptionRows) :
       \E cv1, cv2 \in ContextSimVectors(OptionRows) : Answer(sv, cv1, cv2)

SpecFewOptions == InitFewOptions /\ [][NextFewOptions]_vars

\* C24 (empty option set): a matcher built over zero canonical options is a matcher
\* (the constructor returns one, enabled or disabled), every find_best_match on it
\* returns None, and the number of candidates selected is never more than the number
\* of rows: min(3, rows).
EmptyOptionsSafe ==
    /\ matcher.model \in BOOLEAN
    /\ matcher.existing_options \in FewOptions
    /\ query.pc = "answered" =>
          /\ Len(query.similarities) = OptionRows
          /\ top_k(query.similarities) <= Len(query.similarities)
          /\ top_k(query.similarities) = Min({3, OptionRows})
          /\ OptionRows = 0 => query.result = None

\* find_best_match has returned None on an enabled matcher of zero options
EmptyOptionsSafeWitness ==
    /\ query.pc = "answered"
    /\ ~Disabled(matcher)
    /\ OptionRows = 0
    /\ query.similarities = <<>>
    /\ query.result = None

\* ------------------------------------------------------------------------
\* DatabaseManager.session_scope on its own: scopes entered one after another.
\* query.calls lists the calls made on the session of the scope in progress,
\* query.exc what is propagating, query.done the scopes that were left.
\* ------------------------------------------------------------------------
\* what the body of the with statement does: return, raise an Exception, or raise a
\* BaseException that is no Exception (KeyboardInterrupt, SystemExit)
ScopeBodies == {"returns", "Exception", "BaseException"}

\* a bare `except:`
catches_everything(exc) == exc # "none"

\* except Exception as e
catches(exc) == exc = "Exception"

Count(calls, name) == Cardinality({i \in 1..Len(calls) : calls[i] = name})

InitScope ==
    /\ InitSplit
    /\ query = IdleQuery

\* session = self.Session(); yield session
EnterScope(body) ==
    /\ query.pc \in {"idle", "exited"}
    /\ Len(IF query.pc = "idle" THEN <<>> ELSE query.done) < MaxScopes
    /\ query' = [pc |-> "yielded", body |-> body, calls |-> <<>>, exc |-> "none",
                 done |-> IF query.pc = "idle" THEN <<>> ELSE query.done]
    /\ UNCHANGED <<config, source, dbvars, runvars, faults, peer>>

\* the body of the with statement ends: control comes back to the generator at the
\* yield, normally or with the exception the body raised
BodyEnds ==
    /\ query.pc = "yielded"
    /\ query' = [query EXCEPT
                    !.exc = IF query.body = "returns" THEN "none" ELSE query.body,
                    !.pc = IF query.body = "returns" THEN "commit"
                           ELSE IF catches(query.body) THEN "except"
                           ELSE "finally"]
    /\ UNCHANGED <<config, source, dbvars, runvars, faults, peer>>

\* session.commit(), which may raise
ScopeCommit(commit_raises) ==
    /\ query.pc = "commit"
    /\ query' = [query EXCEPT
                    !.calls = Append(@, "commit"),
                    !.exc = IF commit_raises THEN "Exception" ELSE "none",
                    !.pc = IF commit_raises /\ catches("Exception") THEN "except"
                           ELSE "finally"]
    /\ UNCHANGED <<config, source, dbvars, runvars, faults, peer>>

\* the except block: session.rollback(), logger.error(...), raise; when the rollback
\* raises, its exception propagates and nothing is logged
ScopeRollback(rollback_raises) ==
    /\ query.pc = "except"
    /\ query' = [query EXCEPT
                    !.calls = IF rollback_raises THEN Append(@, "rollback")
                              ELSE Append(Append(@, "rollback"), "error"),
                    !.pc = "finally"]
    /\ UNCHANGED <<config, source, dbvars, runvars, faults, peer>>

\* the finally block: session.close(); the scope is left, with query.exc propagating
ScopeClose ==
    /\ query.pc = "finally"
    /\ query' = [query EXCEPT
                    !.calls = Append(@, "close"),
                    !.pc = "exited",
                    !.done = Append(@, [body |-> query.body, exc |-> query.exc,
                                        calls |-> Append(query.calls, "close")])]
    /\ UNCHANGED <<config, source, dbvars, runvars, faults, peer>>

NextScope ==
    \/ \E body \in ScopeBodies : EnterScope(body)
    \/ BodyEnds
    \/ \E r \in BOOLEAN : ScopeCommit(r)
    \/ \E r \in BOOLEAN : ScopeRollback(r)
    \/ ScopeClose

SpecScope == InitScope /\ [][NextScope]_vars

\* the scopes that were left
ScopesLeft == IF query.pc = "idle" THEN <<>> ELSE query.done

CallOutcomes == {"ok", "SQLAlchemyError", "Exception", "BaseException"}

\* a test that lets the last attempt be retried too
retries_left_inclusive(attempt, max_retries) == attempt < max_retries

\* if attempt < max_retries - 1
retries_left(attempt, max_retries) == attempt < max_retries - 1

\* update_record(session, record_id, table_name, field, value, max_retries);
\* range(0) is empty, so the loop is skipped and line 104 returns False
CallUpdate(max_retries) ==
    /\ query.pc = "idle"
    /\ query' = [pc |-> IF max_retries > 0 THEN "execute" ELSE "returned",
                 max_retries |-> max_retries, attempt |-> 0,
                 executes |-> 0, commits |-> 0, rollbacks |-> 0,
                 warnings |-> 0, errors |-> 0, failures |-> <<>>,
                 rollback_raised |-> FALSE,
                 result |-> IF max_retries > 0 THEN "none" ELSE "False"]
    /\ UNCHANGED <<config, source, dbvars, runvars, faults, peer>>

\* where an attempt goes after execute or commit raised `what`
after_failure(q, what) ==
    IF what = "BaseException"
    THEN [q EXCEPT !.failures = Append(@, what), !.pc = "returned", !.result = "raised"]
    ELSE [q EXCEPT !.failures = Append(@, what), !.pc = "rollback"]

\* session.execute(stmt, {...})
UpdateExecute(what) ==
    /\ query.pc = "execute"
    /\ LET q == [query EXCEPT !.executes = @ + 1] IN
       query' = IF what = "ok" THEN [q EXCEPT !.pc = "commit"] ELSE after_failure(q, what)
    /\ UNCHANGED <<config, source, dbvars, runvars, faults, peer>>

\* session.commit(); logger.info(...); return True
UpdateCommit(what) ==
    /\ query.pc = "commit"
    /\ LET q == [query EXCEPT !.commits = @ + 1] IN
       query' = IF what = "ok" THEN [q EXCEPT !.pc = "returned", !.result = "True"]
                ELSE after_failure(q, what)
    /\ UNCHANGED <<config, source, dbvars, runvars, faults, peer>>

\* the except blocks: session.rollback(), then warn and continue, or log the error and
\* return False; a rollback that raises leaves update_record with its exception
UpdateRollback(rollback_raises) ==
    /\ query.pc = "rollback"
    /\ LET q == [query EXCEPT !.rollbacks = @ + 1]
           what == query.failures[Len(query.failures)]
       IN query' =
            IF rollback_raises
            THEN [q EXCEPT !.pc = "returned", !.result = "raised", !.rollback_raised = TRUE]
            ELSE IF what = "SQLAlchemyError" /\ retries_left(query.attempt, query.max_retries)
            THEN \* warn and continue: the next value of range(max_retries), or line 104
                 IF query.attempt + 1 < query.max_retries
                 THEN [q EXCEPT !.warnings = @ + 1, !.attempt = @ + 1, !.pc = "execute"]
                 ELSE [q EXCEPT !.warnings = @ + 1, !.pc = "returned", !.result = "False"]
            ELSE [q EXCEPT !.errors = @ + 1, !.pc = "returned", !.result = "False"]
    /\ UNCHANGED <<config, source, dbvars, runvars, faults, peer>>

NextUpdate ==
    \/ \E n \in 0..MaxRetries : CallUpdate(n)
    \/ \E what \in CallOutcomes : UpdateExecute(what)
    \/ \E what \in CallOutcomes : UpdateCommit(what)
    \/ \E r \in BOOLEAN : UpdateRollback(r)

SpecUpdate == InitScope /\ [][NextUpdate]_vars

\* update_record has returned or raised
UpdateEnded == query.pc = "returned" /\ query.result # "none"

\* the failed attempts that raised an Exception: those the except blocks handle
HandledFailures ==
    Cardinality({i \in 1..Len(query.failures) : query.failures[i] # "BaseException"})

\* attempts, rollbacks and the three ways to return a value
RetryProtocol ==
    /\ query.executes <= query.max_retries
    /\ query.executes = query.attempt + (IF query.max_retries = 0 THEN 0 ELSE 1)
    /\ query.commits <= query.executes
    /\ query.rollbacks <= HandledFailures
    /\ query.result \in {"True", "False"} => query.rollbacks = Len(query.failures)
    /\ query.result = "True"
          => /\ query.commits >= 1
             /\ query.executes = Len(query.failures) + 1
             /\ \A i \in 1..Len(query.failures) : query.failures[i] = "SQLAlchemyError"
             /\ query.errors = 0
    /\ query.result = "False"
          => \/ query.max_retries = 0 /\ query.executes = 0 /\ query.errors = 0
             \/ /\ query.max_retries > 0
                /\ query.executes = Len(query.failures)
                /\ query.errors = 1
                /\ \A i \in 1..(Len(query.failures) - 1) :
                      query.failures[i] = "SQLAlchemyError"
                /\ \/ query.failures[Len(query.failures)] = "Exception"
                   \/ /\ query.failures[Len(query.failures)] = "SQLAlchemyError"
                      /\ query.executes = query.max_retries

\* C26 (update_record retries) as stated: at most max_retries execute attempts, the
\* first attempt whose execute and commit succeed returns True, one rollback per failed
\* attempt, False after max_retries SQLAlchemyErrors (the error logged once) or after
\* the first other exception, and update_record never raises.
UpdateRetryAsStated ==
    UpdateEnded => (RetryProtocol /\ query.result # "raised"
                    /\ query.rollbacks = Len(query.failures))

\* C26 (update_record retries), amended: the same protocol, and update_record raises
\* only when a rollback raises or when execute or commit raise a BaseException that is
\* no Exception; every Exception of execute and commit ends in True or False.
UpdateRetry ==
    UpdateEnded =>
        /\ RetryProtocol
        /\ query.result = "raised"
              <=> \/ query.rollback_raised
                  \/ /\ query.failures # <<>>
                     /\ query.failures[Len(query.failures)] = "BaseException"

\* the third attempt succeeded after two attempts that raised SQLAlchemyError
UpdateRetryWitness ==
    /\ UpdateEnded
    /\ query.result = "True"
    /\ query.max_retries = 3
    /\ query.executes = 3
    /\ query.rollbacks = 2
    /\ query.commits = 1

\* ------------------------------------------------------------------------
\* with_retry on its own: one call of a wrapped function.  Delays are in tenths of a
\* second.  query.sleeps lists the arguments of time.sleep, in order.
\* ------------------------------------------------------------------------
\* what a call of the wrapped function does: return, raise an exception listed in
\* `exceptions`, raise one that is not listed
FuncOutcomes == {"ok", "listed", "unlisted"}

\* delay, backoff_factor and max_delay the decorator is given
Delays == {1, 10, 50}
BackoffFactors == {1, 2, 10}
MaxDelays == {20, 300}

\* a wrapper that waits after every failed attempt, the last one too
another_attempt_always(attempt, max_attempts) == TRUE

\* if attempt < max_attempts - 1
another_attempt(attempt, max_attempts) == attempt < max_attempts - 1

\* current_delay = min(current_delay * backoff_factor, max_delay)
next_delay(current_delay, backoff_factor, max_delay) ==
    Min({current_delay * backoff_factor, max_delay})

\* wrapper(*args, **kwargs) is entered; with max_attempts 0 the loop is skipped and
\* `raise last_error` raises a TypeError, last_error being None
CallWrapped(max_attempts, delay, backoff_factor, max_delay, has_logger) ==
    /\ query.pc = "idle"
    /\ query' = [pc |-> IF max_attempts > 0 THEN "call" ELSE "raised",
                 max_attempts |-> max_attempts, delay |-> delay,
                 backoff_factor |-> backoff_factor, max_delay |-> max_delay,
                 has_logger |-> has_logger,
                 attempt |-> 0, current_delay |-> delay, calls |-> 0, sleeps |-> <<>>,
                 warnings |-> 0, errors |-> 0, failures |-> <<>>,
                 result |-> IF max_attempts > 0 THEN "none" ELSE "TypeError"]
    /\ UNCHANGED <<config, source, dbvars, runvars, faults, peer>>

\* one pass through the try of the loop body: func(*args, **kwargs)
Attempt(what) ==
    /\ query.pc = "call"
    /\ LET q == [query EXCEPT !.calls = @ + 1] IN
       query' =
         IF what = "ok" THEN [q EXCEPT !.pc = "returned", !.result = "value"]
         ELSE IF what = "unlisted"
         THEN [q EXCEPT !.failures = Append(@, what), !.pc = "raised", !.result = what]
         ELSE IF another_attempt(query.attempt, query.max_attempts)
         THEN [q EXCEPT !.failures = Append(@, what),
                        !.warnings = @ + (IF query.has_logger THEN 1 ELSE 0),
                        !.pc = "sleep"]
         ELSE \* the last attempt: logger.error, the loop ends, raise last_error
              [q EXCEPT !.failures = Append(@, what),
                        !.errors = @ + (IF query.has_logger THEN 1 ELSE 0),
                        !.pc = "raised", !.result = what]
    /\ UNCHANGED <<config, source, dbvars, runvars, faults, peer>>

\* time.sleep(current_delay); current_delay = min(...); continue
Sleep ==
    /\ query.pc = "sleep"
    /\ LET q == [query EXCEPT
                    !.sleeps = Append(@, query.current_delay),
                    !.current_delay = next_delay(@, query.backoff_factor, query.max_delay)]
       IN query' =
            IF query.attempt + 1 < query.max_attempts
            THEN [q EXCEPT !.attempt = @ + 1, !.pc = "call"]
            ELSE [q EXCEPT !.pc = "raised",
                           !.result = query.failures[Len(query.failures)]]
    /\ UNCHANGED <<config, source, dbvars, runvars, faults, peer>>

NextRetry ==
    \/ \E n \in 0..MaxAttempts : \E d \in Delays : \E f \in BackoffFactors :
       \E m \in MaxDelays : \E l \in BOOLEAN : CallWrapped(n, d, f, m, l)
    \/ \E what \in FuncOutcomes : Attempt(what)
    \/ Sleep

SpecRetry == InitScope /\ [][NextRetry]_vars

\* the wrapper has returned or raised
WrapperEnded == query.pc \in {"returned", "raised"}

\* C27 (with_retry attempts): the wrapped function is called at most max_attempts
\* times; the first call that returns ends the wrapper with its result; after
\* max_attempts calls that raised a listed exception the last one is re-raised, with a
\* sleep between two attempts and none after the last; an exception that is not listed
\* leaves the wrapper from the call that raised it, with no sleep and no warning for
\* that call.
RetryAttempts ==
    /\ query.pc # "idle" =>
          /\ query.calls <= query.max_attempts
          /\ Len(query.sleeps) <= query.calls
          /\ \A i \in 1..Len(query.failures) :
                i < Len(query.failures) => query.failures[i] = "listed"
    /\ (WrapperEnded /\ query.max_attempts > 0) =>
          /\ Len(query.sleeps) = query.calls - 1
          /\ query.warnings = (IF query.has_logger THEN query.calls - 1 ELSE 0)
          /\ query.result = "value" => (Len(query.failures) = query.calls - 1
                                        /\ query.pc = "returned" /\ query.errors = 0)
          /\ query.result = "listed"
                => /\ query.calls = query.max_attempts
                   /\ Len(query.failures) = query.calls
                   /\ query.pc = "raised"
                   /\ query.errors = (IF query.has_logger THEN 1 ELSE 0)
          /\ query.result = "unlisted"
                => /\ Len(query.failures) = query.calls
                   /\ query.failures[query.calls] = "unlisted"
                   /\ query.pc = "raised"
                   /\ query.errors = 0
          /\ query.result \in {"value", "listed", "unlisted"}
    /\ (WrapperEnded /\ query.max_attempts = 0) =>
          (query.calls = 0 /\ query.sleeps = <<>> /\ query.result = "TypeError")

\* three calls that raised a listed exception, two sleeps, the last exception re-raised
RetryAttemptsWitness ==
    /\ query.pc = "raised"
    /\ query.result = "listed"
    /\ query.max_attempts = 3
    /\ query.calls = 3
    /\ Len(query.sleeps) = 2
    /\ query.has_logger
    /\ query.warnings = 2

\* C28 (with_retry backoff cap) as stated: every delay slept is at most max_delay,
\* whatever delay, backoff_factor and max_delay are; the first is `delay` and each
\* further one is the one before multiplied by backoff_factor, up to max_delay.
BackoffCapped ==
    query.pc \in {"call", "sleep", "returned", "raised"} =>
        /\ \A i \in 1..Len(query.sleeps) : query.sleeps[i] <= query.max_delay
        /\ Len(query.sleeps) > 0 => query.sleeps[1] = query.delay
        /\ \A i \in 2..Len(query.sleeps) :
              query.sleeps[i] = Min({query.sleeps[i - 1] * query.backoff_factor,
                                     query.max_delay})

\* ------------------------------------------------------------------------
\* Applying a resolution
\* ------------------------------------------------------------------------
\* the loop body has just handled the record at pos
RecordHandled ==
    /\ pc = "processing"
    /\ pos <= Len(batch)
    /\ pos' # pos
    /\ last'.rec = batch[pos]

\* the mapping of the record is written as the ETL type asks, and nothing else is
AppliedOnce ==
    LET rec == batch[pos]
        ids == ResolvedIds(last'.trace)
    IN /\ ids # <<>>
       /\ IF config.etl.multiple_values
          THEN /\ junction' = junction \o [k \in 1..Len(ids) |->
                                              [source_id |-> rec, target_id |-> ids[k]]]
               /\ mapping' = mapping
          ELSE /\ mapping' = [mapping EXCEPT ![rec] = Some(ids[1])]
               /\ junction' = junction
       /\ Get(current_run').records_processed = Get(current_run).records_processed + 1
       /\ Get(current_run').records_failed = Get(current_run).records_failed
       /\ processed_in_batch' = processed_in_batch + 1

NotApplied ==
    /\ UNCHANGED <<mapping, junction>>
    /\ Get(current_run').records_processed = Get(current_run).records_processed
    /\ processed_in_batch' = processed_in_batch

\* what a call of _process_record leaves, by its return value
ApplyStep ==
    /\ last'.ret => (last'.resolved /\ AppliedOnce)
    /\ ~last'.ret => NotApplied
    /\ (last'.resolved /\ ~last'.failed) => last'.ret

\* C29 (applying a resolution): a record that resolves at least one id, and whose
\* processing raises nothing, has its mapping-id column set to the first resolved id
\* (single-valued) or one association row per resolved id inserted (multi-valued), is
\* committed, counted by record_success once, and reported with True; _process_record
\* returns True in that case only, and writes no mapping when it returns False.
ResolutionApplied == [][RecordHandled => ApplyStep]_vars

\* a multi-valued record with two resolved ids has two association rows
ResolutionAppliedWitness ==
    /\ pc = "processing"
    /\ config.etl.multiple_values
    /\ last.ret
    /\ Len(ResolvedIds(last.trace)) = 2
    /\ JunctionTargets(junction, last.rec) = ResolvedIds(last.trace)
    /\ Get(current_run).records_processed = 1

\* ------------------------------------------------------------------------
\* _find_direct_match on its own, over a dictionary table that other ETL types and
\* earlier runs have written
\* ------------------------------------------------------------------------
LookupValues == { <<"a">>, <<"A">>, <<" ", "a">>, <<"z">>, <<"q">> }
LookupIds == {0, 5}

\* dictionary rows: of this target table or another, named like a canonical row, like
\* a value, or like a value up to case and whitespace
LookupRows ==
    [table_name : {TargetTable, OtherTable}, table_name_id : LookupIds, name : LookupValues]

\* a row is in the dictionary table before the lookup
SeedSynonym(row) ==
    /\ query.pc = "idle"
    /\ Len(synonyms) < MaxSynonyms
    /\ synonyms' = Append(synonyms, row)
    /\ UNCHANGED <<config, source, mapping, junction, runvars, faults, peer, query>>

\* self._find_direct_match(session, value) for an ETL of the given type
Lookup(etl, value, query_raises) ==
    /\ query.pc \in {"idle", "looked"}
    /\ query' = [pc |-> "looked", etl |-> etl, value |-> value, raises |-> query_raises,
                 result |-> _find_direct_match(etl, synonyms, value, query_raises)]
    /\ UNCHANGED <<config, source, dbvars, runvars, faults, peer>>

NextLookup ==
    \/ \E row \in LookupRows : SeedSynonym(row)
    \/ \E etl \in {EtlTest, EtlNoDictionary} : \E value \in LookupValues :
       \E r \in BOOLEAN : Lookup(etl, value, r)

SpecLookup == InitScope /\ [][NextLookup]_vars

\* the canonical rows named exactly `value`
CanonicalNamed(value) == {i \in 1..Len(TargetRows) : TargetRows[i].name = value}

\* the dictionary rows of the ETL type's target table named exactly `value`
SynonymsNamed(etl, value) ==
    {i \in 1..Len(synonyms) : /\ synonyms[i].table_name = etl.table_name
                              /\ synonyms[i].name = value}

\* C30 (lookup order and scope): _find_direct_match returns the id of the canonical row
\* whenever the value equals a canonical name, whatever the dictionary holds; it
\* returns a synonym's target id only when no canonical name matches, a dictionary
\* table is configured, and the synonym is one of the current target table whose name
\* equals the value as given; without a dictionary table it returns None then.
LookupOrder ==
    (query.pc = "looked" /\ ~query.raises) =>
        LET c == CanonicalNamed(query.value)
            y == SynonymsNamed(query.etl, query.value)
        IN /\ c # {} => \E i \in c : query.result = Some(TargetRows[i].id)
           /\ (c = {} /\ query.result # None)
                 => /\ query.etl.has_dictionary
                    /\ \E i \in y : query.result = Some(synonyms[i].table_name_id)
           /\ (c = {} /\ query.etl.has_dictionary /\ y # {}) => query.result # None
           /\ (c = {} /\ ~query.etl.has_dictionary) => query.result = None

\* a canonical name was looked up while a synonym of that name points to another id,
\* and the canonical id came back
LookupOrderWitness ==
    /\ query.pc = "looked"
    /\ ~query.raises
    /\ query.etl.has_dictionary
    /\ CanonicalNamed(query.value) # {}
    /\ \E i \in SynonymsNamed(query.etl, query.value) :
          Some(synonyms[i].table_name_id) # query.result
    /\ query.result # None

\* ------------------------------------------------------------------------
\* Ties between canonical options
\* ------------------------------------------------------------------------
\* the options that share the highest boosted similarity of an answered query
TiedBest == {j \in 1..Len(Boosted.num) : Boosted.num[j] = BestSimilarity}

\* C32 (tie-breaking): when several canonical options share the highest boosted
\* similarity, the MatchResult names the one of lowest index.
TieBreakFirstOccurrence ==
    (Answered /\ query.result # None)
        => Get(query.result).id = Min(TiedBest)

\* ------------------------------------------------------------------------
\* The index-to-id indirection: records of one candidate each, resolved by a
\* constructed GenericETL whose database raises nothing.  query keeps, beside what
\* _process_record did, the MatchResult that find_best_match handed it.
\* ------------------------------------------------------------------------
InitIndex ==
    /\ config \in [etl : {EtlTest, EtlTestMulti, EtlNoDictionary},
                   settings : {Some([batch_size |-> None, max_iterations |-> None])},
                   ai_threshold : ConfiguredThresholds]
    /\ source = TableWithContext
    /\ mapping = [r \in 1..Len(source) |-> None]
    /\ junction = <<>>
    /\ synonyms = <<>>
    /\ backend \in BackendOutcomes
    /\ matcher = AIMatcherInit(backend, existing_options(TargetRows))
    /\ backlog = 0
    /\ batches = <<>>
    /\ runs = 1
    /\ pc = "ready"
    /\ iteration = 0
    /\ batch = <<>>
    /\ pos = 0
    /\ processed_in_batch = 0
    /\ processed_total = 0
    /\ current_run = None
    /\ start_calls = 0
    /\ end_calls = 0
    /\ fetches = 0
    /\ outcome = ""
    /\ raised = FALSE
    /\ last = NoRecord
    /\ failed_before = FALSE
    /\ faults = 0
    /\ peer = IdlePeer
    /\ query = IdleQuery

\* an index that takes in the names _add_synonym has just stored
index_with_learned(m, learned) ==
    IF Disabled(m) THEN m
    ELSE [m EXCEPT !.existing_options = @ \o [j \in 1..Len(learned) |-> learned[j].name],
                   !.option_embeddings = Some([rows |-> Get(@).rows + Len(learned)])]

\* the matcher after _process_record: neither it nor _add_synonym nor find_best_match
\* assigns an attribute of self.ai_matcher or of self; the rows `learned` go to the
\* session of the dictionary table only
index_after_record(m, learned) == m

\* _process_record(session, record) for the unmapped source row r, lines 161-199;
\* sv, cv: the similarities the backend answers for the value and for the context value
ResolveRecord(r, sv, cv) ==
    /\ query.pc \in {"idle", "resolved"}
    /\ is_unmapped(config.etl, source, mapping, junction, r)
    /\ LET etl == config.etl
           context == _get_context(etl.context_weights, <<source[r].context_field>>)
           value == _split_values(etl, Get(source[r].value))[1]
           cs == [i \in 1..Len(context) |-> cv]
           acc == candidate_step(etl, matcher, config.ai_threshold, context, value,
                                 NewLoop(synonyms, current_run, faults), sv, cs, FALSE, FALSE)
           o == apply_matches(etl, r, mapping, junction, acc, FALSE)
       IN /\ synonyms' = o.synonyms
          /\ mapping' = o.mapping
          /\ junction' = o.junction
          /\ matcher' = index_after_record(matcher, SubSeq(o.synonyms, Len(synonyms) + 1,
                                                           Len(o.synonyms)))
          /\ query' = [pc |-> "resolved", rec |-> r, value |-> value,
                       direct |-> _find_direct_match(etl, synonyms, value, FALSE),
                       result |-> find_best_match(matcher, config.ai_threshold, value,
                                                  context, None, sv, cs),
                       matched_ids |-> acc.matched_ids,
                       learned |-> SubSeq(o.synonyms, Len(synonyms) + 1, Len(o.synonyms))]
    /\ UNCHANGED <<config, source, backend, backlog, batches, runs, pc, iteration, batch, pos,
                   processed_in_batch, processed_total, current_run, start_calls, end_calls,
                   fetches, outcome, raised, last, failed_before, faults, peer>>

NextIndex ==
    \E r \in 1..Len(source) : \E sv \in SimVectors(Len(TargetRows)) :
    \E cv \in ContextSimVectors(Len(TargetRows)) : ResolveRecord(r, sv, cv)

SpecIndex == InitIndex /\ [][NextIndex]_vars

\* the record resolved last went through the semantic matcher, which accepted a match
SemanticallyResolved ==
    /\ query.pc = "resolved"
    /\ ~TruthyInt(query.direct)
    /\ query.result # None

\* C31 (index-to-id indirection): an enabled matcher holds one option and one embedding
\* row per row of the id map, in the order of the target table; for an accepted semantic
\* match the id persisted as mapping id, association row and synonym target is the
\* database id of the canonical row at the matched index, whose name is the matched
\* text.
IndexToId ==
    /\ ~Disabled(matcher) =>
          /\ Len(matcher.existing_options) = Len(id_map(TargetRows))
          /\ Get(matcher.option_embeddings).rows = Len(id_map(TargetRows))
          /\ \A i \in 1..Len(TargetRows) : matcher.existing_options[i] = TargetRows[i].name
    /\ SemanticallyResolved =>
          LET k == Get(query.result).id
              id == TargetRows[k].id
          IN /\ TargetRows[k].name = Get(query.result).matched_value
             /\ query.matched_ids = <<id>>
             /\ IF config.etl.multiple_values
                THEN /\ \E j \in 1..Len(junction) :
                            junction[j] = [source_id |-> query.rec, target_id |-> id]
                     /\ \A j \in 1..Len(junction) :
                            junction[j].source_id = query.rec => junction[j].target_id = id
                ELSE mapping[query.rec] = Some(id)
             /\ \A j \in 1..Len(query.learned) : query.learned[j].table_name_id = id

\* a semantic match on the second option was persisted with that row's id, which is
\* not its position, as mapping id and as synonym target
IndexToIdWitness ==
    /\ SemanticallyResolved
    /\ Get(query.result).id = 2
    /\ TargetRows[2].id # 1
    /\ mapping[query.rec] = Some(TargetRows[2].id)
    /\ query.learned # <<>>

\* C33 (read-only index): after any number of records resolved, with synonyms learned
\* on the way, the matcher is the one the constructor built: its options and its
\* embeddings are those of the target table, and a learned name is in the dictionary
\* table without being an option of the index.
IndexReadOnly ==
    /\ matcher = AIMatcherInit(backend, existing_options(TargetRows))
    /\ query.pc = "resolved" =>
          /\ \A j \in 1..Len(query.learned) :
                \E i \in 1..Len(synonyms) : synonyms[i] = query.learned[j]
          /\ ~Disabled(matcher) =>
                /\ Len(matcher.existing_options) = Len(TargetRows)
                /\ Get(matcher.option_embeddings).rows = Len(TargetRows)

\* a synonym whose name is no canonical name was learned from a semantic match, and the
\* enabled matcher still holds the options of the target table only
IndexReadOnlyWitness ==
    /\ query.pc = "resolved"
    /\ ~Disabled(matcher)
    /\ query.learned # <<>>
    /\ \A i \in 1..Len(TargetRows) : TargetRows[i].name # query.learned[1].name
    /\ \E i \in 1..Len(synonyms) : synonyms[i] = query.learned[1]
    /\ matcher.existing_options = existing_options(TargetRows)

\* ------------------------------------------------------------------------
\* MonitoringService on its own: a service whose methods a caller invokes in any
\* order.  query.ms is the service, query.calls the calls made since the last
\* start_run, query.stats what get_stats returned if it was the last call.
\* ------------------------------------------------------------------------
ErrorTypes == {"processing", "validation"}
MatchTypes == {"direct", "ai", "fuzzy"}
\* processing times, in tenths of a second
Durations == {5, 7}

\* ETLMetrics(start_time=datetime.now()), the fields the counters live in; error_counts
\* is the dict read with .get(error_type, 0): a key that is absent counts 0
ETLMetrics ==
    [records_processed |-> 0, records_failed |-> 0, direct_matches |-> 0, ai_matches |-> 0,
     processing_times |-> <<>>, error_counts |-> [t \in ErrorTypes |-> 0]]

\* MonitoringService.__init__
MonitoringService == [current_run |-> None, error_history |-> <<>>]

\* MonitoringService.start_run
MonitoringService_start_run(ms) == [ms EXCEPT !.current_run = Some(ETLMetrics)]

\* MonitoringService.record_success(processing_time)
MonitoringService_record_success(ms, processing_time) ==
    IF IsNone(ms.current_run) THEN ms
    ELSE [ms EXCEPT !.current_run =
             Some([Get(@) EXCEPT !.records_processed = @ + 1,
                                 !.processing_times = Append(@, processing_time)])]

\* a record_error that counts the failure without its type
record_error_untyped(ms, error_type) ==
    IF IsNone(ms.current_run) THEN ms
    ELSE [ms EXCEPT !.current_run = Some([Get(@) EXCEPT !.records_failed = @ + 1]),
                    !.error_history = Append(@, error_type)]

\* MonitoringService.record_error(error_type, error_msg, record_id)
MonitoringService_record_error(ms, error_type) ==
    IF IsNone(ms.current_run) THEN ms
    ELSE [ms EXCEPT !.current_run =
             Some([Get(@) EXCEPT !.records_failed = @ + 1,
                                 !.error_counts[error_type] = @ + 1]),
                    !.error_history = Append(@, error_type)]

\* MonitoringService.record_match(match_type)
MonitoringService_record_match(ms, match_type) ==
    IF IsNone(ms.current_run) THEN ms
    ELSE IF match_type = "direct"
    THEN [ms EXCEPT !.current_run = Some([Get(@) EXCEPT !.direct_matches = @ + 1])]
    ELSE IF match_type = "ai"
    THEN [ms EXCEPT !.current_run = Some([Get(@) EXCEPT !.ai_matches = @ + 1])]
    ELSE ms

\* MonitoringService.get_stats: {} without a run; success_rate is kept as the fraction
\* num/den of processed / total_records * 100
MonitoringService_get_stats(ms) ==
    IF IsNone(ms.current_run) THEN [empty |-> TRUE]
    ELSE LET m == Get(ms.current_run)
             total_records == m.records_processed + m.records_failed
         IN [empty |-> FALSE, processed |-> m.records_processed, failed |-> m.records_failed,
             success_rate |-> IF total_records > 0
                              THEN [num |-> m.records_processed * 100, den |-> total_records]
                              ELSE [num |-> 0, den |-> 1],
             direct |-> m.direct_matches, ai |-> m.ai_matches]

NoCalls == [success |-> 0, error |-> 0, direct |-> 0, ai |-> 0]
NotAsked == [asked |-> FALSE]

\* MonitoringService(logger)
NewService ==
    /\ query.pc = "idle"
    /\ query' = [pc |-> "monitoring", ms |-> MonitoringService, n |-> 0, started |-> FALSE,
                 calls |-> NoCalls, stats |-> NotAsked]
    /\ UNCHANGED <<config, source, dbvars, runvars, faults, peer>>

\* one more call on the service, leaving it as `ms` and the calls counted as `calls`
ServiceCall(ms, calls, started, stats) ==
    /\ query.pc = "monitoring"
    /\ query.n < MaxCalls
    /\ query' = [pc |-> "monitoring", ms |-> ms, n |-> query.n + 1, started |-> started,
                 calls |-> calls, stats |-> stats]
    /\ UNCHANGED <<config, source, dbvars, runvars, faults, peer>>

StartRun ==
    /\ query.pc = "monitoring"
    /\ ServiceCall(MonitoringService_start_run(query.ms), NoCalls, TRUE, NotAsked)

RecordSuccess(processing_time) ==
    /\ query.pc = "monitoring"
    /\ ServiceCall(MonitoringService_record_success(query.ms, processing_time),
                   [query.calls EXCEPT !.success = @ + 1], query.started, NotAsked)

RecordError(error_type) ==
    /\ query.pc = "monitoring"
    /\ ServiceCall(MonitoringService_record_error(query.ms, error_type),
                   [query.calls EXCEPT !.error = @ + 1], query.started, NotAsked)

RecordMatch(match_type) ==
    /\ query.pc = "monitoring"
    /\ ServiceCall(MonitoringService_record_match(query.ms, match_type),
                   IF match_type \in {"direct", "ai"}
                   THEN [query.calls EXCEPT ![match_type] = @ + 1] ELSE query.calls,
                   query.started, NotAsked)

GetStats ==
    /\ query.pc = "monitoring"
    /\ ServiceCall(query.ms, query.calls, query.started,
                   [asked |-> TRUE, stats |-> MonitoringService_get_stats(query.ms)])

NextMonitoring ==
    \/ NewService
    \/ StartRun
    \/ \E t \in Durations : RecordSuccess(t)
    \/ \E e \in ErrorTypes : RecordError(e)
    \/ \E m \in MatchTypes : RecordMatch(m)
    \/ GetStats

SpecMonitoring == InitScope /\ [][NextMonitoring]_vars

RECURSIVE SumCounts(_, _)
\* sum(error_counts.values())
SumCounts(counts, S) ==
    IF S = {} THEN 0
    ELSE LET t == CHOOSE x \in S : TRUE IN counts[t] + SumCounts(counts, S \ {t})

\* C34 (metrics bookkeeping): since the last start_run, records_processed is the number
\* of record_success calls and the length of processing_times, records_failed the
\* number of record_error calls and the sum of error_counts, direct_matches and
\* ai_matches the numbers of record_match('direct') and record_match('ai') calls, and
\* get_stats gives success_rate = processed / (processed + failed) * 100, or 0 when
\* both are 0; before the first start_run the service stays as constructed and
\* get_stats returns the empty mapping.
MetricsBookkeeping ==
    query.pc = "monitoring" =>
        /\ ~query.started =>
              /\ query.ms = MonitoringService
              /\ query.stats.asked => query.stats.stats = [empty |-> TRUE]
        /\ query.started =>
              /\ query.ms.current_run # None
              /\ LET m == Get(query.ms.current_run) IN
                 /\ m.records_processed = query.calls.success
                 /\ m.records_processed = Len(m.processing_times)
                 /\ m.records_failed = query.calls.error
                 /\ m.records_failed = SumCounts(m.error_counts, ErrorTypes)
                 /\ m.direct_matches = query.calls.direct
                 /\ m.ai_matches = query.calls.ai
                 /\ query.stats.asked =>
                       LET st == query.stats.stats
                           total == query.calls.success + query.calls.error
                       IN /\ ~st.empty
                          /\ st.processed = query.calls.success
                          /\ st.failed = query.calls.error
                          /\ total = 0 => st.success_rate.num = 0
                          /\ total > 0 =>
                                st.success_rate.num * total
                                   = query.calls.success * 100 * st.success_rate.den

\* after two successes and one validation error get_stats reports two thirds
MetricsBookkeepingWitness ==
    /\ query.pc = "monitoring"
    /\ query.started
    /\ query.calls = [success |-> 2, error |-> 1, direct |-> 0, ai |-> 0]
    /\ Get(query.ms.current_run).error_counts["validation"] = 1
    /\ query.stats.asked
    /\ query.stats.stats.success_rate = [num |-> 200, den |-> 3]

\* ------------------------------------------------------------------------
\* ErrorHandler on its own: handle_error called with errors of any class.
\* query.eh is the handler, query.forwarded the record_error calls it made on its
\* monitoring service, query.error and query.result the last call and what it returned.
\* ------------------------------------------------------------------------
\* the classes of the errors handed in: the three subclasses of ETLError, ETLError
\* itself and an exception that is no ETLError
ErrorClasses == {"ValidationError", "MappingError", "DatabaseError", "ETLError", "ValueError"}
ErrorKinds == {"validation", "mapping", "database", "unknown"}

\* ErrorHandler._classify_error
_classify_error(error) ==
    IF error = "ValidationError" THEN "validation"
    ELSE IF error = "MappingError" THEN "mapping"
    ELSE IF error = "DatabaseError" THEN "database"
    ELSE "unknown"

\* ErrorHandler.__init__; error_counts is read with .get(error_type, 0)
ErrorHandler(monitoring_service) ==
    [monitoring_service |-> monitoring_service, error_history |-> <<>>,
     error_counts |-> [k \in ErrorKinds |-> 0]]

\* if self.monitoring_service: self.monitoring_service.record_error(kind, str(error))
forward(eh, kind) == IF eh.monitoring_service THEN <<kind>> ELSE <<>>

\* ErrorHandler._handle_validation_error
_handle_validation_error(eh) == [forwarded |-> forward(eh, "validation"), result |-> TRUE]

\* ErrorHandler._handle_mapping_error
_handle_mapping_error(eh) == [forwarded |-> forward(eh, "mapping"), result |-> TRUE]

\* a database handler that reports the error as handled
_handle_database_error_handled(eh) ==
    [forwarded |-> forward(eh, "database"), result |-> TRUE]

\* ErrorHandler._handle_database_error
_handle_database_error(eh) == [forwarded |-> forward(eh, "database"), result |-> FALSE]

\* ErrorHandler.handle_error: the handler afterwards, the calls forwarded and the result
handle_error(eh, error) ==
    LET error_type == _classify_error(error)
        after == [eh EXCEPT !.error_history = Append(@, error_type),
                            !.error_counts[error_type] = @ + 1]
        handled == IF error_type = "validation" THEN _handle_validation_error(eh)
                   ELSE IF error_type = "mapping" THEN _handle_mapping_error(eh)
                   ELSE IF error_type = "database" THEN _handle_database_error(eh)
                   ELSE [forwarded |-> <<>>, result |-> FALSE]
    IN [eh |-> after, forwarded |-> handled.forwarded, result |-> handled.result]

\* ErrorHandler.get_error_summary
get_error_summary(eh) ==
    [total_errors |-> Len(eh.error_history), error_counts |-> eh.error_counts]

\* ErrorHandler(logger, monitoring_service)
NewHandler(monitoring_service) ==
    /\ query.pc = "idle"
    /\ query' = [pc |-> "handling", eh |-> ErrorHandler(monitoring_service), n |-> 0,
                 forwarded |-> <<>>, error |-> "none", result |-> FALSE,
                 before |-> ErrorHandler(monitoring_service)]
    /\ UNCHANGED <<config, source, dbvars, runvars, faults, peer>>

\* handle_error(error, context)
HandleError(error) ==
    /\ query.pc = "handling"
    /\ query.n < MaxCalls
    /\ LET h == handle_error(query.eh, error) IN
       query' = [pc |-> "handling", eh |-> h.eh, n |-> query.n + 1,
                 forwarded |-> query.forwarded \o h.forwarded,
                 error |-> error, result |-> h.result, before |-> query.eh]
    /\ UNCHANGED <<config, source, dbvars, runvars, faults, peer>>

NextErrors ==
    \/ \E m \in BOOLEAN : NewHandler(m)
    \/ \E error \in ErrorClasses : HandleError(error)

SpecErrors == InitScope /\ [][NextErrors]_vars

\* the errors of kind k among the entries of a history
OfKind(history, k) == Cardinality({i \in 1..Len(history) : history[i] = k})

\* C35 (ErrorHandler bookkeeping): every handle_error call appends one entry to
\* error_history and adds one to one entry of error_counts, so total_errors is the sum
\* of error_counts; the call returns True exactly for a ValidationError and a
\* MappingError, False for a DatabaseError and for an error classified 'unknown'; the
\* errors forwarded to the monitoring service are those of the three known kinds, in
\* order, and none when there is no monitoring service.
ErrorBookkeeping ==
    query.pc = "handling" =>
        LET eh == query.eh
            known == SelectSeq(eh.error_history, LAMBDA k : k # "unknown")
        IN /\ Len(eh.error_history) = query.n
           /\ get_error_summary(eh).total_errors = SumCounts(eh.error_counts, ErrorKinds)
           /\ \A k \in ErrorKinds : eh.error_counts[k] = OfKind(eh.error_history, k)
           /\ query.forwarded = IF eh.monitoring_service THEN known ELSE <<>>
           /\ query.error # "none" =>
                 /\ Len(eh.error_history) = Len(query.before.error_history) + 1
                 /\ \E k \in ErrorKinds :
                       eh.error_counts = [query.before.error_counts EXCEPT ![k] = @ + 1]
                 /\ query.result <=> query.error \in {"ValidationError", "MappingError"}

\* a handler with a monitoring service has handled a DatabaseError after a plain
\* exception and a ValidationError: it returned False and forwarded two of the three
ErrorBookkeepingWitness ==
    /\ query.pc = "handling"
    /\ query.eh.monitoring_service
    /\ query.eh.error_history = <<"unknown", "validation", "database">>
    /\ query.forwarded = <<"validation", "database">>
    /\ query.error = "DatabaseError"
    /\ ~query.result

\* ------------------------------------------------------------------------
\* BatchOptimizer on its own.  Rates are in hundredths, times in seconds, sizes are
\* positive integers; query.history is self.history, query.returned what the last
\* adjust_size returned.
\* ------------------------------------------------------------------------
InitialSizes == {1, 3, 4, 8, 12}
MinSizes == {1, 4}
MaxSizes == {8, 10}
SuccessRates == {75, 80, 95, 98}
ProcessingTimes == {20, 30, 60, 70}

\* BatchStats(size, success_rate, processing_time)
BatchStats(size, success_rate, processing_time) ==
    [size |-> size, success_rate |-> success_rate, processing_time |-> processing_time]

\* int(self.current_size * 1.25), for a size that is not negative
grown(size) == (size * 5) \div 4

\* int(self.current_size * 0.5), for a size that is not negative
halved(size) == size \div 2

\* BatchOptimizer.adjust_size: the new current_size
adjust_size(current_size, min_size, max_size, success_rate, processing_time) ==
    IF success_rate > 95 /\ processing_time < 30
    THEN Min({grown(current_size), max_size})
    ELSE IF success_rate < 80 \/ processing_time > 60
    THEN Max({halved(current_size), min_size})
    ELSE current_size

\* BatchOptimizer(initial_size, min_size, max_size)
NewOptimizer(initial_size, min_size, max_size) ==
    /\ query.pc = "idle"
    /\ query' = [pc |-> "optimizing", current_size |-> initial_size, min_size |-> min_size,
                 max_size |-> max_size, history |-> <<>>, calls |-> 0, returned |-> None]
    /\ UNCHANGED <<config, source, dbvars, runvars, faults, peer>>

\* adjust_size(success_rate, processing_time)
AdjustSize(success_rate, processing_time) ==
    /\ query.pc = "optimizing"
    /\ query.calls < MaxAdjustments
    /\ LET size == adjust_size(query.current_size, query.min_size, query.max_size,
                               success_rate, processing_time)
       IN query' = [query EXCEPT
                       !.history = Append(@, BatchStats(query.current_size, success_rate,
                                                        processing_time)),
                       !.current_size = size,
                       !.calls = @ + 1,
                       !.returned = Some(size)]
    /\ UNCHANGED <<config, source, dbvars, runvars, faults, peer>>

NextOptimizer ==
    \/ \E i \in InitialSizes : \E lo \in MinSizes : \E hi \in MaxSizes : NewOptimizer(i, lo, hi)
    \/ \E r \in SuccessRates : \E t \in ProcessingTimes : AdjustSize(r, t)

SpecOptimizer == InitScope /\ [][NextOptimizer]_vars

\* the last adjust_size call: the entry it appended to the history
LastCall == query.history[Len(query.history)]

\* C36 (direction of the adjustment): adjust_size returns a size strictly larger than
\* the current one when success_rate > 0.95 and processing_time < 30 and the current
\* size is below max_size, a strictly smaller one when success_rate < 0.8 or
\* processing_time > 60 and the current size is above min_size, and the unchanged size
\* otherwise; every call appends one entry to the history.
AdjustDirection ==
    (query.pc = "optimizing" /\ query.calls > 0) =>
        LET before == LastCall.size
            good == LastCall.success_rate > 95 /\ LastCall.processing_time < 30
            poor == LastCall.success_rate < 80 \/ LastCall.processing_time > 60
            grows == good /\ before < query.max_size
            shrinks == ~good /\ poor /\ before > query.min_size
        IN /\ Len(query.history) = query.calls
           /\ grows => Get(query.returned) > before
           /\ shrinks => Get(query.returned) < before
           /\ (~grows /\ ~shrinks) => Get(query.returned) = before

\* C39 (bounds of the batch size): whatever initial_size, min_size and max_size the
\* optimizer was built with, the size adjust_size returns, which is current_size, lies
\* between min_size and max_size.
SizeWithinBounds ==
    (query.pc = "optimizing" /\ query.calls > 0) =>
        /\ Get(query.returned) = query.current_size
        /\ query.min_size <= query.current_size
        /\ query.current_size <= query.max_size

\* ------------------------------------------------------------------------
\* What a failed record leaves in the database
\* ------------------------------------------------------------------------
\* this step processed the record at pos and an exception reached the record boundary:
\* the except block of _process_record or the one of the loop body handled it
RecordFailedStep ==
    /\ pc = "processing"
    /\ pos' = pos + 1
    /\ last'.rec = batch[pos]
    /\ last'.failed

\* C37 (per-record atomicity): when the processing of a record fails, nothing that was
\* written while processing it is committed: the mapping ids, the association rows and
\* the synonym rows are what they were before the record.
PerRecordAtomicity == [][RecordFailedStep => UNCHANGED <<mapping, junction, synonyms>>]_vars

\* ------------------------------------------------------------------------
\* Association rows of one record
\* ------------------------------------------------------------------------
\* C38 (no duplicate associations): for a multi-valued ETL no two rows of the
\* association table hold the same pair of source record id and target id; a record
\* whose candidates resolve to one target id more than once has one row for it.
NoDuplicateAssociations ==
    config.etl.multiple_values =>
        \A i, j \in 1..Len(junction) : junction[i] = junction[j] => i = j

====
